---- MODULE Spec2Model ----
(***************************************************************************)
(* Model of the dashboard backend core of python_api_connect:              *)
(*   app/utils/cache.py             MemoryCache (TTL cache)                *)
(*   app/utils/websocket_manager.py ConnectionManager (notifier)           *)
(*   app/utils/db_persistence.py    PersistentSQLiteDB (backup)            *)
(*   app/routers/api.py             create_item / update_item / delete_item*)
(*   app/main.py                    dashboard read handlers                *)
(*                                                                         *)
(* Time is the wall clock in whole seconds.  Python's None is the empty    *)
(* tuple and a returned value v is the one-element tuple <<v>>.            *)
(***************************************************************************)
EXTENDS Integers, Sequences, FiniteSets, TLC

VARIABLES
    cache,      \* MemoryCache._cache : key -> CacheEntry (a dict: partial function)
    now,        \* the wall clock read by datetime.now() / time.time()
    last,       \* history: the cache call that ran last, its result and the map before it
    lastSet,    \* history: per key, the latest set not followed by invalidate/clear
    lockOwner,  \* MemoryCache._lock : the thread holding it, 0 when free
    tpc,        \* per thread: where it is in its current cache call
    tcall,      \* per thread: the current cache call, its arguments and result
    items,      \* the rows of the items table (their ids)
    dbVer,      \* the number of writes committed to the store so far
    rpc,        \* per request handler: the statement it is at
    req,        \* per request handler: its request and local variables
    rlog,       \* history: per request handler, the side-effect calls made so far
    loop,       \* the coroutine the event loop is running, 0 when it is free
    conns,      \* ConnectionManager.active_connections
    lastNotif,  \* ConnectionManager.last_notification_time
    lastChange, \* PersistentSQLiteDB.last_data_change_time
    lastBackup, \* PersistentSQLiteDB.last_backup_time
    board,      \* PersistentSQLiteDB.board is not None
    dbFile,     \* PersistentSQLiteDB.db_path.exists()
    sess,       \* per websocket handle: where its websocket_endpoint is
    bpc,        \* per broadcasting coroutine: where it is in broadcast
    bcall,      \* per broadcasting coroutine: the local variables of broadcast
    nlog,       \* history: per broadcast call, in call order, what it did
    inbox,      \* history: per websocket handle, the messages sent to it
    lastOp,     \* history: the latest change of active_connections and the one before
    bkLast,     \* history: the latest call of the backup manager and its result
    stopReq,    \* PersistentSQLiteDB._shutdown_requested
    timerPc,    \* where the backup_timer thread is
    shut,       \* where shutdown() is, and history: what its final backup did
    dbData,     \* what the local database file holds
    lastRead,   \* history: the latest dashboard read and the writes completed before it
    doneVer,    \* history: the latest store version committed by a write that returned
    queue,      \* ConnectionManager.notification_queue
    task,       \* ConnectionManager.processing_task and where _process_notifications is
    qlog,       \* history: the queued notifications handed to notify_data_change, in order
    enq,        \* history: the number of notifications queued so far
    boot,       \* where the startup half of lifespan is, and history: what it did
    up,         \* per thread: the pin_upload it is inside, and the snapshot it took
    marks,      \* history: the number of mark_data_change calls so far
    remoteSnap  \* history: the number of marks the newest remote version was taken after

cacheVars == <<cache, now, last, lastSet>>
threadVars == <<lockOwner, tpc, tcall>>
storeVars == <<items, dbVer>>
handlerVars == <<rpc, req, rlog, loop>>
notifierVars == <<conns, lastNotif>>
backupVars == <<lastChange, lastBackup, board, dbFile>>
writeVars == <<items, dbVer, rpc, req, rlog, loop, conns, lastNotif,
               lastChange, lastBackup, board, dbFile>>

wsVars == <<sess, bpc, bcall, nlog, inbox, lastOp>>
lifeVars == <<stopReq, timerPc, shut, dbData>>
readVars == <<lastRead, doneVer>>
queueVars == <<queue, task, qlog, enq>>
uploadVars == <<up, marks, remoteSnap>>
lateVars == <<queue, task, qlog, enq, boot, up, marks, remoteSnap>>
directVars == <<sess, bpc, bcall, nlog, inbox, lastOp, bkLast,
                stopReq, timerPc, shut, dbData, lastRead, doneVer,
                queue, task, qlog, enq, boot, up, marks, remoteSnap>>

vars == <<cache, now, last, lastSet, lockOwner, tpc, tcall,
          items, dbVer, rpc, req, rlog, loop, conns, lastNotif,
          lastChange, lastBackup, board, dbFile,
          sess, bpc, bcall, nlog, inbox, lastOp, bkLast,
          stopReq, timerPc, shut, dbData, lastRead, doneVer,
          queue, task, qlog, enq, boot, up, marks, remoteSnap>>

----------------------------------------------------------------------------
(* Bounds of the model                                                      *)

MaxTime == 3
MaxTTL == 2
MaxDrift == 1
NumThreads == 2
MaxThreadTime == 2
NumHandlers == 2
MaxWrites == 2
MaxItems == 1
MaxWriteTime == 2
MaxMsgs == 2
MaxBackupHours == 1

\* the websocket handles, and the value that stands for no handle
WebSockets == {"w1", "w2"}
NoWs == "none"
\* the coroutines that call broadcast: at most one per message
Broadcasters == 1..MaxMsgs

Keys == {"k1", "k2"}
Values == {"v1", "v2"}
TTLs == 0..MaxTTL

\* the ttl_seconds the worker threads of the tests pass to cache.set
WorkerTTL == 1

None == <<>>
Some(v) == <<v>>

\* tcall[t] while thread t is in no call
NoCall == [op |-> "none", key |-> "k1", value |-> "v1", ret |-> None, raised |-> FALSE]

\* lastSet[k] while no set of k is pending; ever: k was set at some time
NoSet(ever) == [set |-> FALSE, value |-> "v1", ttl |-> 0, t1 |-> 0, ever |-> ever]

----------------------------------------------------------------------------
(* app/utils/cache.py                                                       *)

\* dict helpers: del d[key] and d[key] = e
DictDel(d, key) == [j \in (DOMAIN d) \ {key} |-> d[j]]
DictPut(d, key, e) == [j \in (DOMAIN d) \cup {key} |-> IF j = key THEN e ELSE d[j]]
EmptyDict == [j \in {} |-> 0]

\* CacheEntry.is_expired: datetime.now() > self.expires_at
IsExpiredNever(entry, t) == FALSE
IsExpired(entry, t) == t > entry.expires_at

\* MemoryCache.get
CacheGetEvictAllExpired(c, key, t) ==
    IF key \notin DOMAIN c
    THEN [cache |-> c, ret |-> None, raised |-> FALSE]
    ELSE IF IsExpired(c[key], t)
         THEN [cache |-> [j \in {i \in DOMAIN c : ~IsExpired(c[i], t)} |-> c[j]],
               ret |-> None, raised |-> FALSE]
         ELSE [cache |-> c, ret |-> Some(c[key].data), raised |-> FALSE]
CacheGet(c, key, t) ==
    IF key \notin DOMAIN c
    THEN [cache |-> c, ret |-> None, raised |-> FALSE]
    ELSE IF IsExpired(c[key], t)
         THEN [cache |-> DictDel(c, key), ret |-> None, raised |-> FALSE]
         ELSE [cache |-> c, ret |-> Some(c[key].data), raised |-> FALSE]

\* MemoryCache.set: the clock is read twice, t1 for expires_at and t2 >= t1
\* for timestamp
CacheSetKeepExpiry(c, key, value, ttl, t1, t2) ==
    [cache |-> DictPut(c, key, [data |-> value, timestamp |-> t2,
                                expires_at |-> IF key \in DOMAIN c
                                               THEN c[key].expires_at
                                               ELSE t1 + ttl]),
     ret |-> None, raised |-> FALSE]
CacheSetIfAbsent(c, key, value, ttl, t1, t2) ==
    [cache |-> IF key \in DOMAIN c /\ ~IsExpired(c[key], t1)
               THEN c
               ELSE DictPut(c, key, [data |-> value, timestamp |-> t2,
                                     expires_at |-> t1 + ttl]),
     ret |-> None, raised |-> FALSE]
CacheSet(c, key, value, ttl, t1, t2) ==
    [cache |-> DictPut(c, key, [data |-> value, timestamp |-> t2,
                                expires_at |-> t1 + ttl]),
     ret |-> None, raised |-> FALSE]

\* MemoryCache.invalidate
CacheInvalidateUnchecked(c, key) ==
    IF key \in DOMAIN c
    THEN [cache |-> DictDel(c, key), ret |-> None, raised |-> FALSE]
    ELSE [cache |-> c, ret |-> None, raised |-> TRUE]
CacheInvalidate(c, key) ==
    IF key \in DOMAIN c
    THEN [cache |-> DictDel(c, key), ret |-> None, raised |-> FALSE]
    ELSE [cache |-> c, ret |-> None, raised |-> FALSE]

\* MemoryCache.clear
CacheClear(c) == [cache |-> EmptyDict, ret |-> None, raised |-> FALSE]

\* MemoryCache.get_stats
CacheGetStatsPurging(c, t) ==
    LET total_entries == Cardinality(DOMAIN c)
        expired_entries == Cardinality({j \in DOMAIN c : IsExpired(c[j], t)})
    IN [cache |-> [j \in {i \in DOMAIN c : ~IsExpired(c[i], t)} |-> c[j]],
        ret |-> Some([total_entries |-> total_entries,
                      expired_entries |-> expired_entries,
                      active_entries |-> total_entries - expired_entries]),
        raised |-> FALSE]
CacheGetStats(c, t) ==
    LET total_entries == Cardinality(DOMAIN c)
        expired_entries == Cardinality({j \in DOMAIN c : IsExpired(c[j], t)})
    IN [cache |-> c,
        ret |-> Some([total_entries |-> total_entries,
                      expired_entries |-> expired_entries,
                      active_entries |-> total_entries - expired_entries]),
        raised |-> FALSE]

----------------------------------------------------------------------------
(* The cache driven call by call by one caller, with the clock advancing    *)
(* between calls (and inside set, between its two clock reads)              *)

Call(op, key, r, pre) ==
    [op |-> op, key |-> key, ret |-> r.ret, raised |-> r.raised,
     at |-> now', pre |-> pre]

Get(key) ==
    LET r == CacheGet(cache, key, now) IN
    /\ cache' = r.cache
    /\ now' = now
    /\ last' = Call("get", key, r, cache)
    /\ lastSet' = lastSet
    /\ UNCHANGED <<threadVars, directVars>>
    /\ UNCHANGED writeVars

Set(key, value, ttl, d) ==
    LET r == CacheSet(cache, key, value, ttl, now, now + d) IN
    /\ now + d <= MaxTime
    /\ cache' = r.cache
    /\ now' = now + d
    /\ last' = Call("set", key, r, cache)
    /\ lastSet' = [lastSet EXCEPT ![key] =
                      [set |-> TRUE, value |-> value, ttl |-> ttl, t1 |-> now,
                       ever |-> TRUE]]
    /\ UNCHANGED <<threadVars, directVars>>
    /\ UNCHANGED writeVars

Invalidate(key) ==
    LET r == CacheInvalidate(cache, key) IN
    /\ cache' = r.cache
    /\ now' = now
    /\ last' = Call("invalidate", key, r, cache)
    /\ lastSet' = [lastSet EXCEPT ![key] = NoSet(lastSet[key].ever)]
    /\ UNCHANGED <<threadVars, directVars>>
    /\ UNCHANGED writeVars

Clear ==
    LET r == CacheClear(cache) IN
    /\ cache' = r.cache
    /\ now' = now
    /\ last' = Call("clear", "k1", r, cache)
    /\ lastSet' = [k \in Keys |-> NoSet(lastSet[k].ever)]
    /\ UNCHANGED <<threadVars, directVars>>
    /\ UNCHANGED writeVars

GetStats ==
    LET r == CacheGetStats(cache, now) IN
    /\ cache' = r.cache
    /\ now' = now
    /\ last' = Call("get_stats", "k1", r, cache)
    /\ lastSet' = lastSet
    /\ UNCHANGED <<threadVars, directVars>>
    /\ UNCHANGED writeVars

Tick ==
    /\ now < MaxTime
    /\ now' = now + 1
    /\ cache' = cache
    /\ last' = [op |-> "tick", key |-> "k1", ret |-> None, raised |-> FALSE,
                at |-> now + 1, pre |-> cache]
    /\ lastSet' = lastSet
    /\ UNCHANGED <<threadVars, directVars>>
    /\ UNCHANGED writeVars

\* req[r] while handler r serves no request
NoReq == [kind |-> "none", id |-> 0, status |-> 0, commitVer |-> 0,
          pending |-> {}, disconnected |-> {},
          uploadFailed |-> FALSE]

\* no request is in progress, no session is connected, nothing to back up
WriteIdle ==
    /\ items = {}
    /\ dbVer = 0
    /\ rpc = [r \in 1..NumHandlers |-> "idle"]
    /\ req = [r \in 1..NumHandlers |-> NoReq]
    /\ rlog = [r \in 1..NumHandlers |-> <<>>]
    /\ loop = 0
    /\ conns = {}
    /\ lastNotif = 0
    /\ lastChange = None
    /\ lastBackup = None
    /\ board = FALSE
    /\ dbFile = FALSE

\* lastOp before any connect or disconnect
NoOp == [op |-> "none", ws |-> NoWs, pre |-> {}, raised |-> FALSE,
         prev |-> [op |-> "none", ws |-> NoWs, pre |-> {}]]

\* bcall[b] while coroutine b is not inside broadcast
NoBroadcast == [msg |-> 0, pending |-> {}, disconnected |-> {}]

\* bkLast before any call of the backup manager
NoBackupCall == [op |-> "none", ret |-> FALSE, at |-> 0,
                 change |-> None, backup |-> None,
                 prevOp |-> "none", prevRet |-> FALSE,
                 remote |-> "none", raised |-> FALSE,
                 board |-> FALSE, file |-> FALSE, data |-> "local"]

\* shut before shutdown() is called.  called, ret: the final backup was
\* called, and what it returned; change: the data-change time it found
NoShutdown == [pc |-> "running", called |-> FALSE, ret |-> FALSE,
               change |-> None, backup |-> None]

\* lastRead before any dashboard read.  ver: the store version the returned
\* page was rendered from, -1 for an error page; after: the latest version
\* whose write had invalidated the dashboard keys when the read began
NoRead == [ver |-> -1, after |-> 0]

\* task before any websocket connected: processing_task is None.  started:
\* how many _process_notifications tasks were created; batch: the
\* notifications list of the task's current pass
NoTask == [pc |-> "none", started |-> 0, batch |-> <<>>]

\* boot once lifespan has reached its yield and the application serves.
\* found: DATABASE_PATH existed when lifespan began; restore: what the restore
\* step did; init: init_db() was called; backup: the initial backup was called
Serving == [pc |-> "serving", found |-> TRUE, restore |-> "skipped",
            init |-> TRUE, backup |-> FALSE]

\* up[th] while thread th is outside pin_upload.  snap: the number of marks the
\* uploaded file was read after; who: the caller of backup_database; late: the
\* call began when _shutdown_requested was already set
NoUpload == [pc |-> "idle", snap |-> 0, who |-> "none", late |-> FALSE]

\* the threads that call backup_database: the event-loop thread (handlers,
\* admin endpoints, lifespan's shutdown) and the backup_timer thread
UploadThreads == {"loop", "timer"}

\* the notification queue is empty, no task runs, no upload is in progress
LateIdle ==
    /\ queue = <<>>
    /\ task = NoTask
    /\ qlog = <<>>
    /\ enq = 0
    /\ up = [th \in UploadThreads |-> NoUpload]
    /\ marks = 0
    /\ remoteSnap = 0

\* no websocket has connected, no broadcast was called, no backup call made
Untouched ==
    /\ LateIdle
    /\ sess = [w \in WebSockets |-> "new"]
    /\ bpc = [b \in Broadcasters |-> "idle"]
    /\ bcall = [b \in Broadcasters |-> NoBroadcast]
    /\ nlog = <<>>
    /\ inbox = [w \in WebSockets |-> <<>>]
    /\ lastOp = NoOp
    /\ bkLast = NoBackupCall
    /\ stopReq = FALSE
    /\ timerPc = "sleeping"
    /\ shut = NoShutdown
    /\ dbData = "local"
    /\ lastRead = NoRead
    /\ doneVer = 0

\* the same, with the startup of lifespan over
DirectIdle ==
    /\ Untouched
    /\ boot = Serving

\* no thread is inside a cache call
ThreadsIdle ==
    /\ lockOwner = 0
    /\ tpc = [t \in 1..NumThreads |-> "idle"]
    /\ tcall = [t \in 1..NumThreads |-> NoCall]

CacheInit ==
    /\ ThreadsIdle
    /\ DirectIdle
    /\ WriteIdle
    /\ cache = EmptyDict
    /\ now = 0
    /\ last = [op |-> "init", key |-> "k1", ret |-> None, raised |-> FALSE,
               at |-> 0, pre |-> EmptyDict]
    /\ lastSet = [k \in Keys |-> NoSet(FALSE)]

CacheNext ==
    \/ \E k \in Keys : Get(k)
    \/ \E k \in Keys, v \in Values, ttl \in TTLs, d \in 0..MaxDrift : Set(k, v, ttl, d)
    \/ \E k \in Keys : Invalidate(k)
    \/ Clear
    \/ GetStats
    \/ Tick

SpecCache == CacheInit /\ [][CacheNext]_vars

----------------------------------------------------------------------------
(* Threads calling set/get/invalidate, each on its own keys, through the    *)
(* cache's lock: "with self._lock:" is acquire, the body, then release      *)

Threads == 1..NumThreads
KeysOf(t) == {<<"worker", t>>}
ThreadKeys == UNION {KeysOf(t) : t \in Threads}

\* threading.RLock.acquire: free, or already held by the calling thread
CanAcquireAlways(owner, t) == TRUE
CanAcquire(owner, t) == owner = 0 \/ owner = t

\* a thread starts a call: cache.get(key), cache.set(key, value, WorkerTTL)
\* or cache.invalidate(key), and arrives at the "with self._lock:" line
ThreadCall(t, op, key, value) ==
    /\ tpc[t] = "idle"
    /\ tpc' = [tpc EXCEPT ![t] = "acquire"]
    /\ tcall' = [tcall EXCEPT ![t] =
                    [op |-> op, key |-> key, value |-> value,
                     ret |-> None, raised |-> FALSE]]
    /\ UNCHANGED <<cache, now, last, lastSet, lockOwner>>
    /\ UNCHANGED <<writeVars, directVars>>

\* with self._lock: (entry)
ThreadAcquire(t) ==
    /\ tpc[t] = "acquire"
    /\ CanAcquire(lockOwner, t)
    /\ lockOwner' = t
    /\ tpc' = [tpc EXCEPT ![t] = "locked"]
    /\ UNCHANGED <<cache, now, last, lastSet, tcall>>
    /\ UNCHANGED <<writeVars, directVars>>

\* the body of the call, run by the thread that passed the lock's entry
ThreadBody(t) ==
    LET c == tcall[t]
        r == CASE c.op = "get" -> CacheGet(cache, c.key, now)
               [] c.op = "set" -> CacheSet(cache, c.key, c.value, WorkerTTL, now, now)
               [] c.op = "invalidate" -> CacheInvalidate(cache, c.key)
    IN
    /\ tpc[t] = "locked"
    /\ cache' = r.cache
    /\ tcall' = [tcall EXCEPT ![t] = [c EXCEPT !.ret = r.ret, !.raised = r.raised]]
    /\ lastSet' = CASE c.op = "get" -> lastSet
                    [] c.op = "set" ->
                         [lastSet EXCEPT ![c.key] =
                             [set |-> TRUE, value |-> c.value, ttl |-> WorkerTTL,
                              t1 |-> now, ever |-> TRUE]]
                    [] c.op = "invalidate" ->
                         [lastSet EXCEPT ![c.key] = NoSet(lastSet[c.key].ever)]
    /\ tpc' = [tpc EXCEPT ![t] = "release"]
    /\ UNCHANGED <<now, last, lockOwner>>
    /\ UNCHANGED <<writeVars, directVars>>

\* with self._lock: (exit), and the call returns
ThreadRelease(t) ==
    /\ tpc[t] = "release"
    /\ lockOwner' = IF lockOwner = t THEN 0 ELSE lockOwner
    /\ tpc' = [tpc EXCEPT ![t] = "idle"]
    /\ tcall' = [tcall EXCEPT ![t] = NoCall]
    /\ UNCHANGED <<cache, now, last, lastSet>>
    /\ UNCHANGED <<writeVars, directVars>>

ThreadTick ==
    /\ now < MaxThreadTime
    /\ now' = now + 1
    /\ UNCHANGED <<cache, last, lastSet, lockOwner, tpc, tcall>>
    /\ UNCHANGED <<writeVars, directVars>>

ThreadsInit ==
    /\ ThreadsIdle
    /\ DirectIdle
    /\ WriteIdle
    /\ cache = EmptyDict
    /\ now = 0
    /\ last = [op |-> "init", key |-> "k1", ret |-> None, raised |-> FALSE,
               at |-> 0, pre |-> EmptyDict]
    /\ lastSet = [k \in ThreadKeys |-> NoSet(FALSE)]

ThreadsNext ==
    \/ \E t \in Threads : \E k \in KeysOf(t) : ThreadCall(t, "get", k, "v1")
    \/ \E t \in Threads : \E k \in KeysOf(t), v \in Values : ThreadCall(t, "set", k, v)
    \/ \E t \in Threads : \E k \in KeysOf(t) : ThreadCall(t, "invalidate", k, "v1")
    \/ \E t \in Threads : ThreadAcquire(t)
    \/ \E t \in Threads : ThreadBody(t)
    \/ \E t \in Threads : ThreadRelease(t)
    \/ ThreadTick

SpecThreads == ThreadsInit /\ [][ThreadsNext]_vars

\* thread t is between the entry and the exit of "with self._lock:"
InCriticalSection(t) == tpc[t] \in {"locked", "release"}

\* C9: with N threads, each calling set/get/invalidate on its own keys in any
\* interleaving, at most one thread is inside the lock at a time and it is the
\* lock's owner, no call raises, and a get(k) that a thread runs after its own
\* set(k, v), with no invalidate of k in between and the entry not yet
\* expired, returns v.
C9_AtomicReadYourWrites ==
    /\ \A t \in Threads, u \in Threads :
          (InCriticalSection(t) /\ InCriticalSection(u)) => t = u
    /\ \A t \in Threads : InCriticalSection(t) <=> lockOwner = t
    /\ \A t \in Threads : ~tcall[t].raised
    /\ \A t \in Threads :
          (tpc[t] = "release" /\ tcall[t].op = "get") =>
              LET s == lastSet[tcall[t].key] IN
              (s.set /\ now <= s.t1 + s.ttl) => tcall[t].ret = Some(s.value)

\* a thread's get has returned the value of its own earlier set while another
\* thread is waiting for the lock
C9_Witness ==
    \E t \in Threads, u \in Threads :
        /\ t # u
        /\ tpc[t] = "release"
        /\ tcall[t].op = "get"
        /\ lastSet[tcall[t].key].set
        /\ tcall[t].ret = Some(lastSet[tcall[t].key].value)
        /\ tpc[u] = "acquire"
        /\ tcall[u].op = "set"

----------------------------------------------------------------------------
(* Properties of the cache, checked under SpecCache                         *)

\* the entry of the key of the last call, as it was before the call
PreHas == last.key \in DOMAIN last.pre
PreEntry == last.pre[last.key]

\* C4: cache.get never returns the value of an entry whose expiresAt is
\* earlier than the time of the call: a get that returns a value returns the
\* data of an entry that was stored for that key and whose expires_at is not
\* before the clock, and a get on an entry already past its expiry returns
\* None.
C4_NoExpiredValueReturned ==
    last.op = "get" =>
        /\ last.ret # None =>
              /\ PreHas
              /\ ~(PreEntry.expires_at < last.at)
              /\ last.ret = Some(PreEntry.data)
        /\ (PreHas /\ PreEntry.expires_at < last.at) => last.ret = None

\* a get has just run on a stored entry whose expiry is in the past
C4_Witness ==
    /\ last.op = "get"
    /\ PreHas
    /\ PreEntry.expires_at < last.at
    /\ last.ret = None

\* C5: set(k, v, ttl) with ttl > 0 followed by get(k) at the same clock value,
\* with no invalidate/clear/set of k in between, returns exactly v; a get of
\* a key that was never set returns None.
C5_SetThenGetReturnsValue ==
    last.op = "get" =>
        LET s == lastSet[last.key] IN
        /\ (s.set /\ s.ttl > 0 /\ s.t1 = last.at) => last.ret = Some(s.value)
        /\ ~s.ever => last.ret = None

\* a get of k has just returned the value of a set of k with ttl > 0 made at
\* the same clock value, over an older entry holding another value
C5_Witness ==
    /\ last.op = "get"
    /\ lastSet[last.key].set
    /\ lastSet[last.key].ttl > 0
    /\ lastSet[last.key].t1 = last.at
    /\ last.ret = Some("v2")
    /\ \E j \in Keys : ~lastSet[j].ever

\* C6: eviction is lazy and per key.  A get(k) on an expired entry returns
\* None and deletes exactly that entry, so that stats then counts one entry
\* fewer and does not count k; get(k) leaves every other entry as it was; and
\* only get, set, invalidate and clear change the map.
C6_LazyPerKeyEviction ==
    /\ (last.op = "get" /\ PreHas /\ PreEntry.expires_at < last.at) =>
          /\ last.ret = None
          /\ cache = DictDel(last.pre, last.key)
          /\ LET st == CacheGetStats(cache, last.at).ret[1] IN
             /\ st.total_entries = Cardinality(DOMAIN last.pre) - 1
             /\ st.active_entries =
                   Cardinality({j \in DOMAIN last.pre :
                                   j # last.key /\ ~(last.pre[j].expires_at < last.at)})
    /\ last.op = "get" =>
          \A j \in (DOMAIN last.pre) \ {last.key} :
              j \in DOMAIN cache /\ cache[j] = last.pre[j]
    /\ cache # last.pre => last.op \in {"get", "set", "invalidate", "clear"}

\* a get has just evicted an expired entry while another expired entry is
\* stored
C6_Witness ==
    /\ last.op = "get"
    /\ PreHas
    /\ PreEntry.expires_at < last.at
    /\ last.key \notin DOMAIN cache
    /\ \E j \in (DOMAIN cache) \ {last.key} : cache[j].expires_at < last.at

\* C7 (state part): invalidate(k) raises nothing, leaves k absent and leaves
\* every other entry unchanged, whether or not k was stored.
C7_InvalidateEffect ==
    last.op = "invalidate" =>
        /\ ~last.raised
        /\ last.key \notin DOMAIN cache
        /\ cache = DictDel(last.pre, last.key)

\* C7: invalidate(k) followed immediately by get(k) returns None regardless of
\* the entry's remaining TTL; invalidate raises nothing and changes no other
\* entry; a second invalidate(k) right after the first changes nothing.
C7_InvalidateThenGetAbsent ==
    /\ [](C7_InvalidateEffect)
    /\ [][(last.op = "invalidate" /\ last'.op = "get" /\ last'.key = last.key)
             => last'.ret = None]_vars
    /\ [][(last.op = "invalidate" /\ last'.op = "invalidate" /\ last'.key = last.key)
             => (cache' = cache /\ ~last'.raised)]_vars

\* invalidate has just run on a key that was not stored, other entries present
C7_Witness ==
    /\ last.op = "invalidate"
    /\ ~PreHas
    /\ DOMAIN cache # {}

\* C8 (state part): after set(k, v2, ttl2) the entry of k holds v2 and
\* expires at the set time plus ttl2, whatever was stored before.
C8_SetEffect ==
    last.op = "set" =>
        LET s == lastSet[last.key] IN
        /\ last.key \in DOMAIN cache
        /\ cache[last.key].data = s.value
        /\ cache[last.key].expires_at = s.t1 + s.ttl
        /\ \A j \in Keys \ {last.key} :
              (j \in DOMAIN cache <=> j \in DOMAIN last.pre)
              /\ (j \in DOMAIN cache => cache[j] = last.pre[j])

\* C8: set on a key that holds an unexpired entry replaces value and expiry
\* unconditionally, and the next get(k), if the clock has not passed the new
\* expiry, returns the new value.
C8_SetOverwrites ==
    /\ [](C8_SetEffect)
    /\ [][(last.op = "set" /\ last'.op = "get" /\ last'.key = last.key
             /\ last'.at <= lastSet[last.key].t1 + lastSet[last.key].ttl)
             => last'.ret = Some(lastSet[last.key].value)]_vars

\* set has just replaced an unexpired entry that held another value and a
\* later expiry
C8_Witness ==
    /\ last.op = "set"
    /\ PreHas
    /\ ~(PreEntry.expires_at < lastSet[last.key].t1)
    /\ PreEntry.data # lastSet[last.key].value
    /\ PreEntry.expires_at > lastSet[last.key].t1 + lastSet[last.key].ttl

\* C10: every stored entry has expires_at > timestamp (expiresAt > createdAt).
C10_ExpiresAfterCreated ==
    \A k \in DOMAIN cache : cache[k].expires_at > cache[k].timestamp

\* C11: get_stats is a read-only snapshot: total_entries is the number of
\* stored entries, expired_entries the number of stored entries whose expiry
\* is past at the call, active_entries their difference; the call returns,
\* and it leaves every entry, the expired ones too, stored as it was
C11_StatsReadOnlySnapshot ==
    last.op = "get_stats" =>
        LET stored == DOMAIN last.pre
            expired == {k \in stored : last.pre[k].expires_at < last.at}
        IN /\ ~last.raised
           /\ last.ret # None
           /\ last.ret[1].total_entries = Cardinality(stored)
           /\ last.ret[1].expired_entries = Cardinality(expired)
           /\ last.ret[1].active_entries = Cardinality(stored \ expired)
           /\ cache = last.pre

\* get_stats has run over a map that holds an expired entry and a live one
C11_Witness ==
    /\ last.op = "get_stats"
    /\ \E k \in DOMAIN cache : cache[k].expires_at < last.at
    /\ \E k \in DOMAIN cache : cache[k].expires_at >= last.at
    /\ last.ret[1].expired_entries = 1
    /\ last.ret[1].total_entries = 2

----------------------------------------------------------------------------
(* app/utils/websocket_manager.py and app/utils/db_persistence.py, as far   *)
(* as the write path calls them                                             *)

Sessions == {"s1"}
DashboardKeys == {"dashboard_stats", "dashboard_items"}

\* ConnectionManager.min_notification_interval
MinNotificationInterval == 1
\* ttl_seconds of the dashboard handlers' cache.set
DashboardTTL == 10
\* PersistentSQLiteDB.backup_interval_hours, and the seconds in an hour
BackupIntervalHours == 1
SecondsPerHour == 3600

\* broadcast: the rate-limit test and the empty-set test that precede the
\* sweep; "sweep" when the message is going to be sent
BroadcastGateNoLimit(current_time, last_notification_time, active) ==
    IF active = {} THEN "no_connections" ELSE "sweep"
BroadcastGate(current_time, last_notification_time, active) ==
    IF current_time - last_notification_time < MinNotificationInterval
    THEN "rate_limited"
    ELSE IF active = {} THEN "no_connections" ELSE "sweep"

\* broadcast: "except Exception" around connection.send_text keeps a failed
\* send inside broadcast
SendFailureEscapes == FALSE
SendFailureCaught == TRUE

\* PersistentSQLiteDB.should_backup_now
ShouldBackupNowIgnoreChange(change, backup, t) ==
    IF change = None THEN FALSE
    ELSE IF backup = None THEN TRUE
    ELSE t - backup[1] >= BackupIntervalHours * SecondsPerHour
ShouldBackupNow(change, backup, t) ==
    IF change = None THEN FALSE
    ELSE IF backup = None THEN TRUE
    ELSE /\ t - backup[1] >= BackupIntervalHours * SecondsPerHour
         /\ change[1] > backup[1]

\* backup_database: "except Exception" around the upload keeps a failed
\* upload inside backup_database
UploadFailureEscapes == FALSE
UploadFailureCaught == TRUE

\* backup_database, restore_database and get_backup_info test self.board
\* first: it is unset when _init_pins_board found no credential or could
\* not connect
BoardNeverMissing(has_board) == FALSE
BoardMissing(has_board) == ~has_board

\* the argument of the backup_database call of create_item, update_item and
\* delete_item
HandlerForced == TRUE
HandlerForce == FALSE

\* last_backup_time after pin_upload returned: datetime.now()
StampKept(backup, t) == backup
StampAfterUpload(backup, t) == Some(t)

\* PersistentSQLiteDB.backup_database(force); upload_ok is the outcome of
\* board.pin_upload when it is called.  uploaded: pin_upload was called
BackupDatabase(force, change, backup, has_board, file_exists, t, upload_ok) ==
    IF ~force /\ ~ShouldBackupNow(change, backup, t)
    THEN [ret |-> FALSE, backup |-> backup, uploaded |-> FALSE, raised |-> FALSE]
    ELSE IF BoardMissing(has_board)
    THEN [ret |-> FALSE, backup |-> backup, uploaded |-> FALSE, raised |-> FALSE]
    ELSE IF ~file_exists
    THEN [ret |-> FALSE, backup |-> backup, uploaded |-> FALSE, raised |-> FALSE]
    ELSE IF upload_ok
    THEN [ret |-> TRUE, backup |-> StampAfterUpload(backup, t),
          uploaded |-> TRUE, raised |-> FALSE]
    ELSE [ret |-> FALSE, backup |-> backup, uploaded |-> TRUE,
          raised |-> ~UploadFailureCaught]

----------------------------------------------------------------------------
(* app/routers/api.py: create_item, update_item, delete_item.  The handlers *)
(* are coroutines of one event loop: a handler runs alone from one await    *)
(* that suspends to the next, and the only such awaits are the send_text    *)
(* calls of broadcast.                                                      *)

Handlers == 1..NumHandlers
Ids == 1..MaxItems
WriteKinds == {"create", "update", "delete"}

\* the event loop lets coroutine r run: it is running already, or none is
Runnable(r) == loop = 0 \/ loop = r

\* sqlite's lastrowid for an INSERT into items: one more than the largest id
NewId == IF items = {} THEN 1 ELSE 1 + CHOOSE i \in items : \A j \in items : j <= i

\* the statements of a handler after its query committed, in program order
NextStepMarkFirst(pc) ==
    CASE pc = "inv_stats" -> "inv_items"
      [] pc = "inv_items" -> "mark"
      [] pc = "mark" -> "backup"
      [] pc = "backup" -> "notify"
      [] pc = "notify" -> "respond"
NextStep(pc) ==
    CASE pc = "inv_stats" -> "inv_items"
      [] pc = "inv_items" -> "notify"
      [] pc = "notify" -> "mark"
      [] pc = "mark" -> "backup"
      [] pc = "backup" -> "respond"

\* the cache key each of the two invalidate statements names
InvalidatedKeyStatsTwice(pc) == "dashboard_stats"
InvalidatedKey(pc) ==
    IF pc = "inv_stats" THEN "dashboard_stats" ELSE "dashboard_items"

\* the dashboard keys that cache.get would return a value for
Cached == {k \in DashboardKeys : CacheGet(cache, k, now).ret # None}

\* the query of a handler and the checks around it.  outcome: the status of
\* the HTTPException raised, or 0 when the write committed
\*   create_item: 500 when execute_insert returns no id
\*   update_item: 404 when the row does not exist, 400 when no field is given
\*   delete_item: 404 when no row was affected
WriteOutcome(kind, id, has_fields, insert_ok) ==
    CASE kind = "create" -> IF insert_ok THEN 0 ELSE 500
      [] kind = "update" -> IF id \notin items THEN 404
                            ELSE IF ~has_fields THEN 400 ELSE 0
      [] kind = "delete" -> IF id \notin items THEN 404 ELSE 0

\* the handlers that have made both invalidate calls for the write they
\* committed
ReadyHandlers ==
    {r \in Handlers : rpc[r] \in {"notify", "send", "mark", "backup", "respond", "done"}}

\* the largest of a set of store versions
Latest(S) == CHOOSE v \in S : \A w \in S : w <= v

\* where a handler goes when its query or a check around it fails: raise
\* HTTPException, before any side effect
AfterFailureGoesOn(outcome) == "inv_stats"
AfterFailure(outcome) == "failed"

\* a request arrives and its handler runs up to and including its query.
\* The coroutines are interchangeable: the request gets the first idle one
WriteQuery(r, kind, id, has_fields, insert_ok) ==
    LET outcome == WriteOutcome(kind, id, has_fields, insert_ok)
        row == IF kind = "create" THEN NewId ELSE id
    IN
    /\ rpc[r] = "idle"
    /\ \A q \in Handlers : q < r => rpc[q] # "idle"
    /\ loop = 0
    /\ dbVer < MaxWrites
    /\ kind = "create" => (id = NewId /\ NewId \in Ids)
    /\ IF outcome = 0
       THEN /\ items' = IF kind = "create" THEN items \cup {row}
                        ELSE IF kind = "delete" THEN items \ {row} ELSE items
            /\ dbVer' = dbVer + 1
            /\ rpc' = [rpc EXCEPT ![r] = "inv_stats"]
            /\ req' = [req EXCEPT ![r] = [NoReq EXCEPT !.kind = kind, !.id = row,
                                                       !.commitVer = dbVer + 1]]
            /\ loop' = r
       ELSE /\ UNCHANGED <<items, dbVer>>
            /\ rpc' = [rpc EXCEPT ![r] = AfterFailure(outcome)]
            /\ req' = [req EXCEPT ![r] = [NoReq EXCEPT !.kind = kind, !.id = id,
                                                       !.status = outcome]]
            /\ loop' = r
    /\ UNCHANGED <<rlog, cache, now, last, lastSet>>
    /\ UNCHANGED <<directVars, threadVars, notifierVars, backupVars>>

\* cache.invalidate("dashboard_stats") and cache.invalidate("dashboard_items")
WriteInvalidate(r) ==
    /\ rpc[r] \in {"inv_stats", "inv_items"}
    /\ Runnable(r)
    /\ cache' = CacheInvalidate(cache, InvalidatedKey(rpc[r])).cache
    /\ rlog' = [rlog EXCEPT ![r] = Append(@, <<"invalidate", InvalidatedKey(rpc[r])>>)]
    /\ rpc' = [rpc EXCEPT ![r] = NextStep(rpc[r])]
    /\ loop' = r
    /\ UNCHANGED <<req, now, last, lastSet>>
    /\ UNCHANGED <<directVars, threadVars, storeVars, notifierVars, backupVars>>

\* await manager.notify_data_change(...): broadcast up to the sweep
WriteNotify(r) ==
    LET gate == BroadcastGate(now, lastNotif, conns) IN
    /\ rpc[r] = "notify"
    /\ Runnable(r)
    /\ rlog' = [rlog EXCEPT ![r] = Append(@, <<"notify_data_change", "">>)]
    /\ IF gate = "sweep"
       THEN /\ lastNotif' = now
            /\ req' = [req EXCEPT ![r].pending = conns, ![r].disconnected = {}]
            /\ rpc' = [rpc EXCEPT ![r] = "send"]
       ELSE /\ UNCHANGED <<lastNotif, req>>
            /\ rpc' = [rpc EXCEPT ![r] = NextStep("notify")]
    /\ loop' = r
    /\ UNCHANGED <<conns, cache, now, last, lastSet>>
    /\ UNCHANGED <<directVars, threadVars, storeVars, backupVars>>

\* broadcast: await connection.send_text(message_str) for one connection of
\* the copied set; send_ok is whether the send succeeds.  The await may
\* suspend the handler
WriteSend(r, s, send_ok) ==
    /\ rpc[r] = "send"
    /\ Runnable(r)
    /\ s \in req[r].pending
    /\ req' = [req EXCEPT ![r].pending = @ \ {s},
                          ![r].disconnected = IF send_ok THEN @ ELSE @ \cup {s}]
    /\ rpc' = IF ~send_ok /\ ~SendFailureCaught
              THEN [rpc EXCEPT ![r] = "raised"]
              ELSE rpc
    /\ loop' = 0
    /\ UNCHANGED <<rlog, conns, lastNotif, cache, now, last, lastSet>>
    /\ UNCHANGED <<directVars, threadVars, storeVars, backupVars>>

\* broadcast after the sweep: self.active_connections -= disconnected
WriteSweepDone(r) ==
    /\ rpc[r] = "send"
    /\ Runnable(r)
    /\ req[r].pending = {}
    /\ conns' = conns \ req[r].disconnected
    /\ rpc' = [rpc EXCEPT ![r] = NextStep("notify")]
    /\ loop' = r
    /\ UNCHANGED <<req, rlog, lastNotif, cache, now, last, lastSet>>
    /\ UNCHANGED <<directVars, threadVars, storeVars, backupVars>>

\* db_manager.mark_data_change()
WriteMark(r) ==
    /\ rpc[r] = "mark"
    /\ Runnable(r)
    /\ lastChange' = Some(now)
    /\ rlog' = [rlog EXCEPT ![r] = Append(@, <<"mark_data_change", "">>)]
    /\ rpc' = [rpc EXCEPT ![r] = NextStep("mark")]
    /\ loop' = r
    /\ UNCHANGED <<req, lastBackup, board, dbFile, cache, now, last, lastSet>>
    /\ UNCHANGED <<directVars, threadVars, storeVars, notifierVars>>

\* db_manager.backup_database()
WriteBackup(r, upload_ok) ==
    LET b == BackupDatabase(HandlerForce, lastChange, lastBackup, board, dbFile, now, upload_ok) IN
    /\ rpc[r] = "backup"
    /\ Runnable(r)
    /\ upload_ok \/ b.uploaded
    /\ lastBackup' = b.backup
    /\ rlog' = [rlog EXCEPT ![r] = Append(@, <<"backup_database", "unforced">>)]
    /\ req' = [req EXCEPT ![r].uploadFailed = b.uploaded /\ ~b.ret]
    /\ rpc' = [rpc EXCEPT ![r] = IF b.raised THEN "raised" ELSE NextStep("backup")]
    /\ loop' = r
    /\ UNCHANGED <<lastChange, board, dbFile, cache, now, last, lastSet>>
    /\ UNCHANGED <<directVars, threadVars, storeVars, notifierVars>>

\* return get_item(item_id) (create, update: 404 when the row is gone) or
\* return {"detail": ...} (delete)
WriteRespond(r) ==
    /\ rpc[r] = "respond"
    /\ Runnable(r)
    /\ req' = [req EXCEPT ![r].status =
                  IF req[r].kind = "delete" \/ req[r].id \in items THEN 200 ELSE 404]
    /\ rpc' = [rpc EXCEPT ![r] = "done"]
    /\ loop' = r
    /\ UNCHANGED <<rlog, cache, now, last, lastSet>>
    /\ UNCHANGED <<directVars, threadVars, storeVars, notifierVars, backupVars>>

\* the handler returns (or its exception leaves it); the coroutine ends
WriteReturn(r) ==
    /\ rpc[r] \in {"done", "failed", "raised"}
    /\ Runnable(r)
    /\ rpc' = [rpc EXCEPT ![r] = "idle"]
    /\ req' = [req EXCEPT ![r] = NoReq]
    /\ rlog' = [rlog EXCEPT ![r] = <<>>]
    /\ loop' = IF loop = r THEN 0 ELSE loop
    /\ doneVer' = IF req[r].commitVer > doneVer THEN req[r].commitVer ELSE doneVer
    /\ UNCHANGED <<cache, now, last, lastSet>>
    /\ UNCHANGED <<wsVars, bkLast, lifeVars, lastRead, lateVars>>
    /\ UNCHANGED <<threadVars, storeVars, notifierVars, backupVars>>

----------------------------------------------------------------------------
(* app/main.py: the dashboard read handlers and the websocket endpoint      *)

\* get_dashboard_stats / get_dashboard_items: the except clause returns the
\* error page without a cache.set
CachesErrorPageToo == TRUE
CachesErrorPage == FALSE

\* get_dashboard_stats / get_dashboard_items: cache.get, and on a miss the
\* value rendered from the store is cached for DashboardTTL seconds.  The
\* rendered value is identified by the store state it was computed from
\* (dbVer).  query_ok: get_dashboard_data() does not raise.  The handlers
\* contain no await: they run without interruption on the event loop
DashboardRead(key, query_ok) ==
    LET g == CacheGet(cache, key, now) IN
    /\ loop = 0
    /\ query_ok \/ g.ret = None
    /\ cache' = IF g.ret # None THEN g.cache
                ELSE IF query_ok
                     THEN CacheSet(g.cache, key, dbVer, DashboardTTL, now, now).cache
                     ELSE IF CachesErrorPage
                          THEN CacheSet(g.cache, key, -1, DashboardTTL, now, now).cache
                          ELSE g.cache
    /\ lastRead' =
          [ver |-> IF g.ret # None THEN g.ret[1] ELSE IF query_ok THEN dbVer ELSE -1,
           after |-> Latest({doneVer} \cup {req[r].commitVer : r \in ReadyHandlers})]
    /\ UNCHANGED <<now, last, lastSet>>
    /\ UNCHANGED <<wsVars, bkLast, lifeVars, doneVer, lateVars>>
    /\ UNCHANGED <<threadVars, writeVars>>

\* websocket_endpoint: manager.connect(websocket)
SessionConnect(s) ==
    /\ loop = 0
    /\ s \notin conns
    /\ conns' = conns \cup {s}
    /\ UNCHANGED <<directVars, lastNotif, cacheVars, threadVars, storeVars, handlerVars, backupVars>>

\* websocket_endpoint: manager.disconnect(websocket)
SessionDisconnect(s) ==
    /\ loop = 0
    /\ s \in conns
    /\ conns' = conns \ {s}
    /\ UNCHANGED <<directVars, lastNotif, cacheVars, threadVars, storeVars, handlerVars, backupVars>>

\* the wall clock advances
WriteTick ==
    /\ now < MaxWriteTime
    /\ now' = now + 1
    /\ UNCHANGED <<cache, last, lastSet, threadVars, writeVars, directVars>>

\* the process after a first startup: the cache is empty, no session is
\* connected, last_notification_time is 0 and the clock is at least one
\* interval past it; no backup has been made; the pins board may or may not
\* be connected and the file at db_path may or may not exist
Init ==
    /\ ThreadsIdle
    /\ DirectIdle
    /\ cache = EmptyDict
    /\ now = MinNotificationInterval
    /\ last = [op |-> "init", key |-> "k1", ret |-> None, raised |-> FALSE,
               at |-> 0, pre |-> EmptyDict]
    /\ lastSet = [k \in Keys |-> NoSet(FALSE)]
    /\ items = {}
    /\ dbVer = 0
    /\ rpc = [r \in Handlers |-> "idle"]
    /\ req = [r \in Handlers |-> NoReq]
    /\ rlog = [r \in Handlers |-> <<>>]
    /\ loop = 0
    /\ conns = {}
    /\ lastNotif = 0
    /\ lastChange = None
    /\ board \in BOOLEAN
    /\ dbFile \in BOOLEAN
    /\ lastBackup = None

Next ==
    \/ \E r \in Handlers, kind \in WriteKinds, id \in Ids, f \in BOOLEAN, ok \in BOOLEAN :
          WriteQuery(r, kind, id, f, ok)
    \/ \E r \in Handlers : WriteInvalidate(r)
    \/ \E r \in Handlers : WriteNotify(r)
    \/ \E r \in Handlers, s \in Sessions, ok \in BOOLEAN : WriteSend(r, s, ok)
    \/ \E r \in Handlers : WriteSweepDone(r)
    \/ \E r \in Handlers : WriteMark(r)
    \/ \E r \in Handlers, ok \in BOOLEAN : WriteBackup(r, ok)
    \/ \E r \in Handlers : WriteRespond(r)
    \/ \E r \in Handlers : WriteReturn(r)
    \/ \E k \in DashboardKeys, ok \in BOOLEAN : DashboardRead(k, ok)
    \/ \E s \in Sessions : SessionConnect(s)
    \/ \E s \in Sessions : SessionDisconnect(s)
    \/ WriteTick

Spec == Init /\ [][Next]_vars

----------------------------------------------------------------------------
(* Properties of the write path, checked under Spec                         *)

\* the side-effect calls of a handler whose query committed, in the order
\* the claim gives
WriteSteps ==
    << <<"invalidate", "dashboard_stats">>, <<"invalidate", "dashboard_items">>,
       <<"notify_data_change", "">>, <<"mark_data_change", "">>,
       <<"backup_database", "unforced">> >>

\* handler r has invalidated both dashboard keys for the write it committed
PastInvalidation(r) == rpc[r] \in {"notify", "send", "mark", "backup", "respond", "done"}

\* C1: every successful mutating request makes its side-effect calls in the
\* fixed order invalidate stats, invalidate items, notify, mark dirty,
\* unforced backup: at every point the calls made so far are a prefix of that
\* sequence, and a handler that reaches its return statement has made all of
\* them.
C1_WriteStepsInOrder ==
    \A r \in Handlers :
        /\ Len(rlog[r]) <= Len(WriteSteps)
        /\ rlog[r] = SubSeq(WriteSteps, 1, Len(rlog[r]))
        /\ rpc[r] \in {"respond", "done"} => rlog[r] = WriteSteps
        /\ req[r].status = 200 => rlog[r] = WriteSteps

\* an update has completed with status 200 while the other handler is
\* suspended inside its broadcast
C1_Witness ==
    \E r \in Handlers, q \in Handlers :
        /\ rpc[r] = "done"
        /\ req[r].status = 200
        /\ req[r].kind = "update"
        /\ rpc[q] = "send"

\* C2: after a successful write has invalidated the dashboard keys, cache.get
\* returns None for both keys at once, and from then on returns a value for
\* such a key only if a read recomputed it from the store as of that write or
\* later.
C2_CacheAbsentAfterWrite ==
    \A r \in Handlers :
        /\ rpc[r] = "notify" =>
              \A k \in DashboardKeys : CacheGet(cache, k, now).ret = None
        /\ PastInvalidation(r) =>
              \A k \in Cached : cache[k].data >= req[r].commitVer

\* a handler is between its two invalidate calls: the stats entry is gone and
\* the items entry, cached by an earlier read, still has TTL left
C2_Witness ==
    \E r \in Handlers :
        /\ rpc[r] = "inv_items"
        /\ "dashboard_stats" \notin DOMAIN cache
        /\ "dashboard_items" \in Cached
        /\ cache["dashboard_items"].data < req[r].commitVer
        /\ cache["dashboard_items"].expires_at > now

\* C3: a failed send in the notification step and a failed upload in the
\* backup step stay inside their step: no exception leaves the handler, a
\* handler that had a send fail still marks the store dirty and calls the
\* backup, and a handler whose upload failed still makes every call, leaves
\* the store marked dirty and returns its normal response (200, or the 404 of
\* get_item when the row has meanwhile been deleted).
C3_WriteStepsFaultTolerant ==
    \A r \in Handlers :
        /\ rpc[r] # "raised"
        /\ (req[r].disconnected # {} /\ rpc[r] \in {"backup", "respond", "done"}) =>
              /\ lastChange # None
              /\ lastChange[1] <= now
              /\ \E i \in 1..Len(rlog[r]) : rlog[r][i] = <<"mark_data_change", "">>
        /\ (req[r].disconnected # {} /\ rpc[r] \in {"respond", "done"}) =>
              rlog[r] = WriteSteps
        /\ req[r].uploadFailed =>
              /\ rpc[r] \in {"respond", "done"}
              /\ rlog[r] = WriteSteps
              /\ lastChange # None
        /\ (req[r].uploadFailed /\ rpc[r] = "done") =>
              \/ req[r].status = 200
              \/ req[r].kind # "delete" /\ req[r].id \notin items

\* a write has completed with status 200 although its send failed and its
\* upload failed
C3_Witness ==
    \E r \in Handlers :
        /\ rpc[r] = "done"
        /\ req[r].disconnected # {}
        /\ req[r].uploadFailed
        /\ req[r].status = 200

----------------------------------------------------------------------------
(* app/utils/websocket_manager.py on its own: coroutines of one event loop  *)
(* call broadcast (through notify_data_change or directly) while websocket  *)
(* endpoints connect and disconnect.  A coroutine runs alone from one await *)
(* that suspends to the next; broadcast suspends in each                    *)
(* "await connection.send_text".  Every websocket handle is a fresh object: *)
(* it is connected at most once.                                            *)

\* the clock stops when every message could have passed the rate limit
MaxNotifierTime == MinNotificationInterval + MaxMsgs - 1

\* broadcast: "self.last_notification_time = current_time" stands after both
\* early returns
StampBeforeEmptyTest(gate, current_time, last_notification_time) ==
    IF gate = "rate_limited" THEN last_notification_time ELSE current_time
StampAfterGate(gate, current_time, last_notification_time) ==
    IF gate = "sweep" THEN current_time ELSE last_notification_time

\* broadcast: the for loop goes on to the connections of the copy it has not
\* visited
RemainingAll(pending, ws) == pending
Remaining(pending, ws) == pending \ {ws}

\* broadcast: self.active_connections -= disconnected
AfterSweepKeepAll(active, disconnected) == active
AfterSweep(active, disconnected) == active \ disconnected

\* disconnect: self.active_connections.discard(websocket)
SetRemove(active, ws) == [active |-> active \ {ws}, raised |-> ws \notin active]
SetDiscard(active, ws) == [active |-> active \ {ws}, raised |-> FALSE]

\* lastOp after a change op of active_connections made on the set pre; prev:
\* the change before it, kept when that was a connect
Op(op, ws, pre, raised) ==
    [op |-> op, ws |-> ws, pre |-> pre, raised |-> raised,
     prev |-> IF lastOp.op = "connect" /\ ~lastOp.raised
              THEN [op |-> lastOp.op, ws |-> lastOp.ws, pre |-> lastOp.pre]
              ELSE NoOp.prev]

\* the nlog entry of a broadcast called now.  before/after: the rate-limit
\* timestamp before the call and as the call left it; active: the active set
\* at the call (the copy the sweep iterates)
Called(gate) ==
    [at |-> now, before |-> lastNotif,
     after |-> lastNotif',
     active |-> conns, gate |-> gate,
     attempted |-> <<>>, ok |-> {}, failed |-> {}, stale |-> {},
     removed |-> {}, done |-> gate # "sweep", raised |-> FALSE,
     endSeq |-> IF gate # "sweep" THEN Len(nlog) + 1 ELSE 0]

\* one iteration of the sweep by coroutine b for message msg: send_text on
\* ws, which succeeds or raises.  log is nlog with the entry of msg in it.
\* stale: ws was no longer in active_connections when send_text was called
SendTo(b, msg, log, pending, disconnected, ws, send_ok) ==
    LET e == [log[msg] EXCEPT
                 !.attempted = Append(@, ws),
                 !.ok = IF send_ok THEN @ \cup {ws} ELSE @,
                 !.failed = IF send_ok THEN @ ELSE @ \cup {ws},
                 !.stale = IF ws \in conns THEN @ ELSE @ \cup {ws}]
        escaped == ~send_ok /\ ~SendFailureCaught
    IN /\ inbox' = IF send_ok THEN [inbox EXCEPT ![ws] = Append(@, msg)] ELSE inbox
       /\ IF escaped
          THEN /\ nlog' = [log EXCEPT ![msg] = [e EXCEPT !.done = TRUE,
                                                         !.raised = TRUE,
                                                         !.endSeq = Len(log)]]
               /\ bpc' = [bpc EXCEPT ![b] = "idle"]
               /\ bcall' = [bcall EXCEPT ![b] = NoBroadcast]
          ELSE /\ nlog' = [log EXCEPT ![msg] = e]
               /\ bpc' = [bpc EXCEPT ![b] = "sending"]
               /\ bcall' = [bcall EXCEPT ![b] =
                              [msg |-> msg,
                               pending |-> Remaining(pending, ws),
                               disconnected |-> IF send_ok THEN disconnected
                                                ELSE disconnected \cup {ws}]]

\* notify_data_change / broadcast up to its first suspension: the clock
\* read, the two early returns, the timestamp, the copy and the first
\* send_text
Broadcast(b, ws, send_ok) ==
    LET gate == BroadcastGate(now, lastNotif, conns)
        msg == Len(nlog) + 1
        log == Append(nlog, Called(gate))
    IN /\ bpc[b] = "idle"
       /\ \A c \in Broadcasters : c < b => bpc[c] # "idle"
       /\ Len(nlog) < MaxMsgs
       /\ lastNotif' = StampAfterGate(gate, now, lastNotif)
       /\ IF gate = "sweep"
          THEN /\ ws \in conns
               /\ SendTo(b, msg, log, conns, {}, ws, send_ok)
          ELSE /\ ws = NoWs
               /\ send_ok
               /\ nlog' = log
               /\ UNCHANGED <<bpc, bcall, inbox>>
       /\ UNCHANGED <<conns, sess, lastOp, bkLast, lifeVars, readVars, now>>
       /\ UNCHANGED <<cache, last, lastSet, threadVars, storeVars, handlerVars, backupVars>>

\* notify_data_change awaited by a request handler
BroadcastCall(b, ws, send_ok) ==
    /\ Broadcast(b, ws, send_ok)
    /\ UNCHANGED lateVars

\* broadcast resumed after a send_text: the next connection of the copy, or
\* after the last one the removal of the failed connections and the return
BroadcastResume(b, ws, send_ok) ==
    LET c == bcall[b] IN
    /\ bpc[b] = "sending"
    /\ IF c.pending # {}
       THEN /\ ws \in c.pending
            /\ SendTo(b, c.msg, nlog, c.pending, c.disconnected, ws, send_ok)
            /\ UNCHANGED <<conns, lastOp>>
       ELSE /\ ws = NoWs
            /\ send_ok
            /\ conns' = AfterSweep(conns, c.disconnected)
            /\ nlog' = [nlog EXCEPT ![c.msg] = [@ EXCEPT !.done = TRUE,
                                                         !.removed = conns \ conns',
                                                         !.endSeq = Len(nlog)]]
            /\ lastOp' = IF conns' = conns THEN lastOp
                         ELSE Op("sweep_end", NoWs, conns, FALSE)
            /\ bpc' = [bpc EXCEPT ![b] = "idle"]
            /\ bcall' = [bcall EXCEPT ![b] = NoBroadcast]
            /\ inbox' = inbox
    /\ UNCHANGED <<lastNotif, sess, bkLast, lifeVars, readVars, lateVars, now>>
    /\ UNCHANGED <<cache, last, lastSet, threadVars, storeVars, handlerVars, backupVars>>

\* connect: the handle joins active_connections once accept() has returned
AddBeforeAccept(active, ws, accept_ok) == active \cup {ws}
AddAfterAccept(active, ws, accept_ok) == IF accept_ok THEN active \cup {ws} ELSE active

\* connect: if self.processing_task is None or self.processing_task.done()
TaskNeededAlways(t) == TRUE
TaskNeeded(t) == t.pc \in {"none", "done"}

\* connect: asyncio.create_task(self._process_notifications()) when needed
StartTask(t) ==
    IF TaskNeeded(t)
    THEN [pc |-> "drain", started |-> t.started + 1, batch |-> <<>>]
    ELSE t

\* websocket_endpoint: manager.connect(websocket).  While accept() is awaited
\* the manager's state is untouched, so the await and what follows it are one
\* step; when accept raises the endpoint ends with the handle never added and
\* no task started
Connect(ws, accept_ok) ==
    /\ sess[ws] = "new"
    /\ conns' = AddAfterAccept(conns, ws, accept_ok)
    /\ sess' = [sess EXCEPT ![ws] = IF accept_ok THEN "open" ELSE "refused"]
    /\ lastOp' = Op("connect", ws, conns, ~accept_ok)
    /\ task' = IF accept_ok THEN StartTask(task) ELSE task
    /\ UNCHANGED <<lastNotif, bpc, bcall, nlog, inbox, bkLast, lifeVars, readVars, now>>
    /\ UNCHANGED <<queue, qlog, enq, boot, uploadVars>>
    /\ UNCHANGED <<cache, last, lastSet, threadVars, storeVars, handlerVars, backupVars>>

\* manager.disconnect(websocket), called by websocket_endpoint when its
\* receive loop ends, and callable on any handle
Disconnect(ws) ==
    LET r == SetDiscard(conns, ws) IN
    /\ conns' = r.active
    /\ sess' = [sess EXCEPT ![ws] = IF @ = "open" THEN "closed" ELSE @]
    /\ lastOp' = Op("disconnect", ws, conns, r.raised)
    /\ UNCHANGED <<lastNotif, bpc, bcall, nlog, inbox, bkLast, lifeVars, readVars, lateVars, now>>
    /\ UNCHANGED <<cache, last, lastSet, threadVars, storeVars, handlerVars, backupVars>>

NotifierTick ==
    /\ now < MaxNotifierTime
    /\ now' = now + 1
    /\ UNCHANGED <<conns, lastNotif, directVars>>
    /\ UNCHANGED <<cache, last, lastSet, threadVars, storeVars, handlerVars, backupVars>>

\* ConnectionManager.__init__; the clock is past the first rate-limit window
NotifierInit ==
    /\ ThreadsIdle
    /\ DirectIdle
    /\ WriteIdle
    /\ cache = EmptyDict
    /\ now = MinNotificationInterval
    /\ last = [op |-> "init", key |-> "k1", ret |-> None, raised |-> FALSE,
               at |-> 0, pre |-> EmptyDict]
    /\ lastSet = [k \in Keys |-> NoSet(FALSE)]

NotifierNext ==
    \/ \E b \in Broadcasters, ws \in WebSockets \cup {NoWs}, send_ok \in BOOLEAN :
          BroadcastCall(b, ws, send_ok)
    \/ \E b \in Broadcasters, ws \in WebSockets \cup {NoWs}, send_ok \in BOOLEAN :
          BroadcastResume(b, ws, send_ok)
    \/ \E ws \in WebSockets, accept_ok \in BOOLEAN : Connect(ws, accept_ok)
    \/ \E ws \in WebSockets : Disconnect(ws)
    \/ NotifierTick

SpecNotifier == NotifierInit /\ [][NotifierNext]_vars

----------------------------------------------------------------------------
(* The notification queue and its processing task                           *)

\* the broadcasting coroutine that is the processing task
TaskBroadcaster == 1

\* queue_notification: self.notification_queue.put((change_type, details)).
\* Queue() is unbounded, so put never blocks nor raises; the notification is
\* named by its position in the order of the puts
QueueNotification ==
    /\ enq < MaxMsgs
    /\ enq' = enq + 1
    /\ queue' = Append(queue, enq + 1)
    /\ UNCHANGED <<task, qlog, boot, uploadVars>>
    /\ UNCHANGED <<wsVars, bkLast, lifeVars, readVars>>
    /\ UNCHANGED <<cache, now, last, lastSet, threadVars, writeVars>>

\* _process_notifications: the inner while loop, get_nowait() until the queue
\* is empty, into the list notifications
DrainNewestFirst(q) == [n \in 1..Len(q) |-> q[Len(q) + 1 - n]]
Drain(q) == q

TaskDrain ==
    /\ task.pc = "drain"
    /\ task' = [task EXCEPT !.pc = "notify", !.batch = Drain(queue)]
    /\ queue' = <<>>
    /\ UNCHANGED <<qlog, enq, boot, uploadVars>>
    /\ UNCHANGED <<wsVars, bkLast, lifeVars, readVars>>
    /\ UNCHANGED <<cache, now, last, lastSet, threadVars, writeVars>>

\* _process_notifications: one iteration of "for change_type, details in
\* notifications: await self.notify_data_change(change_type, details)", up to
\* the first suspension of the broadcast it calls
TaskNotify(ws, send_ok) ==
    /\ task.pc = "notify"
    /\ task.batch # <<>>
    /\ bpc[TaskBroadcaster] = "idle"
    /\ Broadcast(TaskBroadcaster, ws, send_ok)
    /\ task' = [task EXCEPT !.batch = Tail(@)]
    /\ qlog' = Append(qlog, [id |-> Head(task.batch), msg |-> Len(nlog) + 1])
    /\ UNCHANGED <<queue, enq, boot, uploadVars>>

\* _process_notifications: await asyncio.sleep(0.1) after the for loop, and
\* back to the top of "while True"
TaskSleep ==
    /\ task.pc = "notify"
    /\ task.batch = <<>>
    /\ bpc[TaskBroadcaster] = "idle"
    /\ task' = [task EXCEPT !.pc = "drain"]
    /\ UNCHANGED <<queue, qlog, enq, boot, uploadVars>>
    /\ UNCHANGED <<wsVars, bkLast, lifeVars, readVars>>
    /\ UNCHANGED <<cache, now, last, lastSet, threadVars, writeVars>>

QueueNext ==
    \/ QueueNotification
    \/ TaskDrain
    \/ \E ws \in WebSockets \cup {NoWs}, send_ok \in BOOLEAN : TaskNotify(ws, send_ok)
    \/ \E ws \in WebSockets \cup {NoWs}, send_ok \in BOOLEAN :
          BroadcastResume(TaskBroadcaster, ws, send_ok)
    \/ TaskSleep
    \/ \E ws \in WebSockets, accept_ok \in BOOLEAN : Connect(ws, accept_ok)
    \/ \E ws \in WebSockets : Disconnect(ws)
    \/ NotifierTick

\* the event loop runs every coroutine that is ready: the task's steps and
\* the sends it awaits complete
SpecQueue ==
    /\ NotifierInit
    /\ [][QueueNext]_vars
    /\ WF_vars(TaskDrain)
    /\ WF_vars(\E ws \in WebSockets \cup {NoWs}, send_ok \in BOOLEAN : TaskNotify(ws, send_ok))
    /\ WF_vars(\E ws \in WebSockets \cup {NoWs}, send_ok \in BOOLEAN :
                  BroadcastResume(TaskBroadcaster, ws, send_ok))
    /\ WF_vars(TaskSleep)

----------------------------------------------------------------------------
(* Claims about the notifier                                                *)

Msgs == 1..Len(nlog)
Range(seq) == {seq[n] : n \in 1..Len(seq)}
Times(seq, x) == Cardinality({n \in 1..Len(seq) : seq[n] = x})

\* broadcast i executed sends
Sent(i) == nlog[i].attempted # <<>>
\* broadcast i was called inside the rate-limit window
Dropped(i) == nlog[i].at - nlog[i].before < MinNotificationInterval

\* C12: a broadcast called less than the minimum interval after a broadcast
\* that sent sends nothing: of two such calls a session that got the first
\* message gets exactly that one, and any two broadcasts that send are at
\* least the minimum interval apart
C12_RateLimit ==
    \A i, j \in Msgs :
        i < j =>
            /\ Sent(i) /\ nlog[j].at - nlog[i].at < MinNotificationInterval =>
                  /\ ~Sent(j)
                  /\ \A w \in WebSockets :
                        /\ Times(inbox[w], j) = 0
                        /\ w \in nlog[i].ok => Times(inbox[w], i) = 1
            /\ Sent(i) /\ Sent(j) =>
                  nlog[j].at - nlog[i].at >= MinNotificationInterval

\* a session got a message, and a second broadcast called in the same second
\* with the session still active sent nothing
C12_Witness ==
    \E i, j \in Msgs : \E w \in WebSockets :
        /\ i < j
        /\ w \in nlog[i].ok
        /\ nlog[j].at = nlog[i].at
        /\ w \in nlog[j].active
        /\ nlog[j].done
        /\ ~Sent(j)
        /\ inbox[w] = <<i>>

\* C13: a session whose send failed in a broadcast is out of the active set
\* once that broadcast has ended, and no broadcast called after that end
\* attempts a send to it
C13_FailedSessionEvicted ==
    \A k \in Msgs :
        nlog[k].done /\ Sent(k) =>
            /\ nlog[k].failed \cap conns = {}
            /\ \A i \in Msgs :
                  i > nlog[k].endSeq => Range(nlog[i].attempted) \cap nlog[k].failed = {}

\* a broadcast in which a send failed has ended, and a broadcast called
\* after it has sent to another session
C13_Witness ==
    \E k, i \in Msgs :
        /\ nlog[k].done
        /\ nlog[k].failed # {}
        /\ i > nlog[k].endSeq
        /\ Sent(i)
        /\ nlog[i].done

\* C14: when a broadcast that passed the rate limit has ended, every session
\* of the active set at its start got exactly one send attempt, whichever
\* sends failed and in whatever order, and the broadcast removed none of the
\* sessions whose send succeeded
C14_EverySessionAttemptedOnce ==
    \A k \in Msgs :
        nlog[k].done /\ ~Dropped(k) =>
            /\ \A w \in nlog[k].active : Times(nlog[k].attempted, w) = 1
            /\ Range(nlog[k].attempted) \subseteq nlog[k].active
            /\ nlog[k].removed \cap nlog[k].ok = {}
            /\ nlog[k].removed \subseteq nlog[k].failed

\* a broadcast has ended whose first send failed and whose second succeeded,
\* and the session of the second is still active
C14_Witness ==
    \E k \in Msgs :
        /\ nlog[k].done
        /\ Len(nlog[k].attempted) = 2
        /\ nlog[k].attempted[1] \in nlog[k].failed
        /\ nlog[k].attempted[2] \in nlog[k].ok
        /\ nlog[k].attempted[2] \in conns
        /\ nlog[k].removed = {nlog[k].attempted[1]}

\* C15: a broadcast called with the active set empty sends nothing and
\* leaves the rate-limit timestamp as it was, so that the next broadcast,
\* called within the minimum interval with a session connected, sends
C15_EmptyBroadcastKeepsTimestamp ==
    \A i \in Msgs :
        nlog[i].active = {} =>
            /\ ~Sent(i)
            /\ nlog[i].after = nlog[i].before
            /\ \A w \in WebSockets : Times(inbox[w], i) = 0
            /\ (/\ i + 1 \in Msgs
                /\ ~Dropped(i)
                /\ nlog[i + 1].at - nlog[i].at < MinNotificationInterval
                /\ nlog[i + 1].active # {}) => Sent(i + 1)

\* a broadcast found no session, a session connected, and a broadcast called
\* in the same second sent to it
C15_Witness ==
    \E i \in Msgs :
        /\ nlog[i].active = {}
        /\ ~Dropped(i)
        /\ i + 1 \in Msgs
        /\ nlog[i + 1].at = nlog[i].at
        /\ nlog[i + 1].ok # {}

\* C16: a broadcast in which every send failed leaves the rate-limit
\* timestamp as it was, and the next broadcast, called after it ended and
\* within the minimum interval with a session connected, sends
C16_OnlySuccessfulSendsStamp ==
    \A k \in Msgs :
        nlog[k].done /\ Sent(k) /\ nlog[k].ok = {} =>
            /\ nlog[k].after = nlog[k].before
            /\ (/\ k + 1 \in Msgs
                /\ nlog[k].endSeq = k
                /\ nlog[k + 1].at - nlog[k].at < MinNotificationInterval
                /\ nlog[k + 1].active # {}) => Sent(k + 1)

\* C17: the messages a session has been sent are, in the order sent, a
\* subsequence of the broadcasts called while it was active and outside the
\* rate-limit window: none dropped, none twice, none out of call order
C17_ReceivedIsSubsequence ==
    \A w \in WebSockets :
        /\ \A n \in 1..Len(inbox[w]) :
              /\ w \in nlog[inbox[w][n]].active
              /\ ~Dropped(inbox[w][n])
        /\ \A m, n \in 1..Len(inbox[w]) : m < n => inbox[w][m] < inbox[w][n]

\* C17, amended: a broadcast dropped by the rate limit is never sent to any
\* session, and a session is sent each broadcast at most once and only
\* broadcasts called while it was active
C17_DroppedIsLost ==
    \A w \in WebSockets : \A i \in Msgs :
        /\ Times(inbox[w], i) <= 1
        /\ Times(inbox[w], i) = 1 => w \in nlog[i].active /\ ~Dropped(i)

\* a session was sent one broadcast, the next was dropped with the session
\* active, and with the window over the session has been sent nothing more
C17_Witness ==
    \E i, j \in Msgs : \E w \in WebSockets :
        /\ i < j
        /\ Times(inbox[w], i) = 1
        /\ Dropped(j)
        /\ w \in nlog[j].active
        /\ now - nlog[j].at >= MinNotificationInterval
        /\ w \in conns
        /\ inbox[w] = <<i>>

\* C18: no broadcast calls send_text on a session that is no longer in the
\* active set
C18_NoSendToRemoved ==
    \A i \in Msgs : nlog[i].stale = {}

\* C19: disconnect raises nothing and leaves the active set without the
\* session and otherwise as it was: unchanged when the session was absent,
\* and as before the connect when it follows the connect of the same handle
C19_DisconnectIdempotent ==
    lastOp.op = "disconnect" =>
        /\ ~lastOp.raised
        /\ lastOp.ws \notin conns
        /\ conns \ {lastOp.ws} = lastOp.pre \ {lastOp.ws}
        /\ lastOp.ws \notin lastOp.pre => conns = lastOp.pre
        /\ lastOp.prev.op = "connect" /\ lastOp.prev.ws = lastOp.ws =>
              conns = lastOp.prev.pre

\* disconnect has been called on a session that a broadcast had removed
\* after its send failed
C19_Witness ==
    /\ lastOp.op = "disconnect"
    /\ lastOp.ws \notin lastOp.pre
    /\ \E k \in Msgs : lastOp.ws \in nlog[k].removed
    /\ conns # {}

----------------------------------------------------------------------------
(* app/utils/db_persistence.py on its own: mark_data_change,                *)
(* should_backup_now and backup_database called one after the other, with   *)
(* the clock advancing between the calls                                    *)

\* the instants the clock visits: each multiple of the backup interval, the
\* second before it and the second after it
ClockPoints ==
    {t \in {h * BackupIntervalHours * SecondsPerHour + e :
               h \in 0..MaxBackupHours, e \in {-1, 0, 1}} : t >= 0}

\* what the call of the pins board did (pin_upload, pin_download or
\* pin_meta), when the operation made one
Remote(called, outcome) == IF called THEN outcome ELSE "none"
Upload(called, upload_ok) == Remote(called, IF upload_ok THEN "ok" ELSE "fails")

\* the calls that bkLast remembers as the call before
Remembered == {"mark_data_change", "backup_database", "backup_database_forced"}

\* bkLast after the call op that returned ret.  remote: what the call of the
\* pins board did; prevOp, prevRet: the call before, if it was one of
\* Remembered; the other fields are the state before the call
BackupCalled(op, ret, remote, raised) ==
    [op |-> op, ret |-> ret, at |-> now,
     change |-> lastChange, backup |-> lastBackup,
     prevOp |-> IF bkLast.op \in Remembered THEN bkLast.op ELSE "none",
     prevRet |-> bkLast.op \in Remembered /\ bkLast.ret,
     remote |-> remote, raised |-> raised,
     board |-> board, file |-> dbFile, data |-> dbData]

\* last_data_change_time after mark_data_change: datetime.now()
MarkChangeKeepFirst(change, t) == IF change = None THEN Some(t) ELSE change
MarkChange(change, t) == Some(t)

MarkDataChange ==
    /\ lastChange' = MarkChange(lastChange, now)
    /\ bkLast' = BackupCalled("mark_data_change", FALSE, "none", FALSE)
    /\ UNCHANGED <<lastBackup, board, dbFile, now>>
    /\ UNCHANGED <<wsVars, lifeVars, readVars, lateVars>>
    /\ UNCHANGED <<cache, last, lastSet, threadVars, storeVars, handlerVars, notifierVars>>

ShouldBackupNowCall ==
    /\ bkLast' = BackupCalled("should_backup_now",
                              ShouldBackupNow(lastChange, lastBackup, now),
                              "none", FALSE)
    /\ UNCHANGED <<lastChange, lastBackup, board, dbFile, now>>
    /\ UNCHANGED <<wsVars, lifeVars, readVars, lateVars>>
    /\ UNCHANGED <<cache, last, lastSet, threadVars, storeVars, handlerVars, notifierVars>>

BackupCall(force, upload_ok) ==
    LET r == BackupDatabase(force, lastChange, lastBackup, board, dbFile, now, upload_ok) IN
    /\ upload_ok \/ r.uploaded
    /\ lastBackup' = r.backup
    /\ bkLast' = BackupCalled(IF force THEN "backup_database_forced"
                              ELSE "backup_database", r.ret,
                              Upload(r.uploaded, upload_ok), r.raised)
    /\ UNCHANGED <<lastChange, board, dbFile, now>>
    /\ UNCHANGED <<wsVars, lifeVars, readVars, lateVars>>
    /\ UNCHANGED <<cache, last, lastSet, threadVars, storeVars, handlerVars, notifierVars>>

\* the end of create_item, update_item and delete_item:
\* db_manager.mark_data_change() and then db_manager.backup_database(), with
\* no await between the two
WriteHandlerTail(upload_ok) ==
    LET change == MarkChange(lastChange, now)
        r == BackupDatabase(HandlerForce, change, lastBackup, board, dbFile, now, upload_ok)
    IN
    /\ upload_ok \/ r.uploaded
    /\ lastChange' = change
    /\ lastBackup' = r.backup
    /\ bkLast' = BackupCalled("write_handler", r.ret,
                              Upload(r.uploaded, upload_ok), r.raised)
    /\ UNCHANGED <<board, dbFile, now>>
    /\ UNCHANGED <<wsVars, lifeVars, readVars, lateVars>>
    /\ UNCHANGED <<cache, last, lastSet, threadVars, storeVars, handlerVars, notifierVars>>

\* what pin_download and shutil.copy2 can do inside restore_database
Downloads == {"ok", "empty", "fails"}
Copies == {"ok", "copy_fails", "copy_partial"}

\* the except clause of restore_database catches what pin_download, mkdir
\* and copy2 raise
DownloadFailureEscapes == FALSE
DownloadFailureCaught == TRUE

\* PersistentSQLiteDB.restore_database.  download: pin_download returned
\* paths, returned none, or raised; copy: copy2 wrote the file, raised before
\* writing, or raised after writing a part.  exists, data: the local file
\* after the call; downloaded: pin_download was called
RestoreDatabase(has_board, file_exists, data, download, copy) ==
    IF BoardMissing(has_board)
    THEN [ret |-> FALSE, exists |-> file_exists, data |-> data,
          downloaded |-> FALSE, raised |-> FALSE]
    ELSE IF download = "fails"
    THEN [ret |-> FALSE, exists |-> file_exists, data |-> data,
          downloaded |-> TRUE, raised |-> ~DownloadFailureCaught]
    ELSE IF download = "empty"
    THEN [ret |-> FALSE, exists |-> file_exists, data |-> data,
          downloaded |-> TRUE, raised |-> FALSE]
    ELSE IF copy = "ok"
    THEN [ret |-> TRUE, exists |-> TRUE, data |-> "restored",
          downloaded |-> TRUE, raised |-> FALSE]
    ELSE IF copy = "copy_fails"
    THEN [ret |-> FALSE, exists |-> file_exists, data |-> data,
          downloaded |-> TRUE, raised |-> ~DownloadFailureCaught]
    ELSE [ret |-> FALSE, exists |-> TRUE, data |-> "partial",
          downloaded |-> TRUE, raised |-> ~DownloadFailureCaught]

RestoreCall(download, copy) ==
    LET r == RestoreDatabase(board, dbFile, dbData, download, copy) IN
    /\ r.downloaded \/ (download = "ok" /\ copy = "ok")
    /\ download = "ok" \/ copy = "ok"
    /\ dbFile' = r.exists
    /\ dbData' = r.data
    /\ bkLast' = BackupCalled("restore_database", r.ret,
                              Remote(r.downloaded, IF download = "ok" THEN copy
                                                   ELSE download), r.raised)
    /\ UNCHANGED <<lastChange, lastBackup, board, now>>
    /\ UNCHANGED <<wsVars, stopReq, timerPc, shut, readVars, lateVars>>
    /\ UNCHANGED <<cache, last, lastSet, threadVars, storeVars, handlerVars, notifierVars>>

\* PersistentSQLiteDB.get_backup_info: the pin's metadata, or None.  ret: a
\* value other than None is returned; queried: pin_meta was called
GetBackupInfo(has_board, meta_ok) ==
    IF BoardMissing(has_board)
    THEN [ret |-> FALSE, queried |-> FALSE]
    ELSE [ret |-> meta_ok, queried |-> TRUE]

GetBackupInfoCall(meta_ok) ==
    LET r == GetBackupInfo(board, meta_ok) IN
    /\ meta_ok \/ r.queried
    /\ bkLast' = BackupCalled("get_backup_info", r.ret,
                              Upload(r.queried, meta_ok), FALSE)
    /\ UNCHANGED <<lastChange, lastBackup, board, dbFile, now>>
    /\ UNCHANGED <<wsVars, lifeVars, readVars, lateVars>>
    /\ UNCHANGED <<cache, last, lastSet, threadVars, storeVars, handlerVars, notifierVars>>

\* PersistentSQLiteDB.get_status: a dictionary of the fields and of
\* should_backup_now(); ret is its should_backup_now entry
GetStatusCall ==
    /\ bkLast' = BackupCalled("get_status",
                              ShouldBackupNow(lastChange, lastBackup, now),
                              "none", FALSE)
    /\ UNCHANGED <<lastChange, lastBackup, board, dbFile, now>>
    /\ UNCHANGED <<wsVars, lifeVars, readVars, lateVars>>
    /\ UNCHANGED <<cache, last, lastSet, threadVars, storeVars, handlerVars, notifierVars>>

\* the test of shutdown() before its final backup
UnsavedChangesNeedsBackup(change, backup) ==
    IF change = None \/ backup = None THEN FALSE ELSE change[1] > backup[1]
UnsavedChanges(change, backup) ==
    IF change = None THEN FALSE
    ELSE IF backup = None THEN TRUE
    ELSE change[1] > backup[1]

\* PersistentSQLiteDB.shutdown up to its join: the stop flag is set, then
\* backup_database(force=True) is called if there are unsaved changes.  The
\* join is skipped when the timer thread is not alive
ShutdownCall(upload_ok) ==
    LET called == UnsavedChanges(lastChange, lastBackup)
        r == BackupDatabase(TRUE, lastChange, lastBackup, board, dbFile, now, upload_ok) IN
    /\ shut.pc = "running"
    /\ upload_ok \/ (called /\ r.uploaded)
    /\ stopReq' = TRUE
    /\ lastBackup' = IF called THEN r.backup ELSE lastBackup
    /\ shut' = [pc |-> IF timerPc = "exited" THEN "returned" ELSE "joining",
                called |-> called, ret |-> called /\ r.ret,
                change |-> lastChange, backup |-> lastBackup]
    /\ bkLast' = BackupCalled("shutdown", called /\ r.ret,
                              Upload(called /\ r.uploaded, upload_ok),
                              called /\ r.raised)
    /\ UNCHANGED <<lastChange, board, dbFile, now>>
    /\ UNCHANGED <<wsVars, timerPc, dbData, readVars, lateVars>>
    /\ UNCHANGED <<cache, last, lastSet, threadVars, storeVars, handlerVars, notifierVars>>

\* self._backup_timer.join(timeout=5) returns: the thread ended or the five
\* seconds are over
ShutdownJoin ==
    /\ shut.pc = "joining"
    /\ shut' = [shut EXCEPT !.pc = "returned"]
    /\ UNCHANGED <<backupVars, now, wsVars, bkLast, stopReq, timerPc, dbData, readVars, lateVars>>
    /\ UNCHANGED <<cache, last, lastSet, threadVars, storeVars, handlerVars, notifierVars>>

\* the two tests of _shutdown_requested in backup_timer: the loop condition
\* and the one after time.sleep
TimerIgnoresStop(flag) == FALSE
TimerSeesStop(flag) == flag

\* the argument of the backup_database call of _check_and_backup_if_needed
TimerForced == TRUE
TimerForce == FALSE

\* backup_timer wakes from time.sleep: it ends if the stop flag is set, and
\* otherwise evaluates should_backup_now in _check_and_backup_if_needed
TimerWake ==
    /\ timerPc = "sleeping"
    /\ IF TimerSeesStop(stopReq)
       THEN /\ timerPc' = "exited"
            /\ UNCHANGED bkLast
       ELSE LET should == ShouldBackupNow(lastChange, lastBackup, now) IN
            /\ timerPc' = IF should THEN "backup" ELSE "sleeping"
            /\ bkLast' = BackupCalled("timer_wake", should, "none", FALSE)
    /\ UNCHANGED <<backupVars, now, wsVars, stopReq, shut, dbData, readVars, lateVars>>
    /\ UNCHANGED <<cache, last, lastSet, threadVars, storeVars, handlerVars, notifierVars>>

\* _check_and_backup_if_needed calls backup_database, then the loop
\* condition of backup_timer is tested
TimerBackup(upload_ok) ==
    LET r == BackupDatabase(TimerForce, lastChange, lastBackup, board, dbFile, now, upload_ok) IN
    /\ timerPc = "backup"
    /\ upload_ok \/ r.uploaded
    /\ lastBackup' = r.backup
    /\ timerPc' = IF TimerSeesStop(stopReq) THEN "exited" ELSE "sleeping"
    /\ bkLast' = BackupCalled("timer_backup", r.ret,
                              Upload(r.uploaded, upload_ok), r.raised)
    /\ UNCHANGED <<lastChange, board, dbFile, now>>
    /\ UNCHANGED <<wsVars, stopReq, shut, dbData, readVars, lateVars>>
    /\ UNCHANGED <<cache, last, lastSet, threadVars, storeVars, handlerVars, notifierVars>>

BackupTick(t) ==
    /\ t > now
    /\ now' = t
    /\ UNCHANGED <<backupVars, directVars>>
    /\ UNCHANGED <<cache, last, lastSet, threadVars, storeVars, handlerVars, notifierVars>>

\* last_backup_time when the application starts serving: lifespan sets it
\* from the backup_time of the pin's metadata when get_backup_info returns
\* one, and PersistentSQLiteDB.__init__ leaves it unset
StartupBackupTimes(has_board) ==
    IF GetBackupInfo(has_board, TRUE).ret THEN {None, Some(0)} ELSE {None}

\* PersistentSQLiteDB.__init__ and the startup of lifespan: the pins board is
\* connected or not, the database file exists or not, and the timer thread
\* is started
BackupInit ==
    /\ ThreadsIdle
    /\ DirectIdle
    /\ items = {}
    /\ dbVer = 0
    /\ rpc = [r \in 1..NumHandlers |-> "idle"]
    /\ req = [r \in 1..NumHandlers |-> NoReq]
    /\ rlog = [r \in 1..NumHandlers |-> <<>>]
    /\ loop = 0
    /\ conns = {}
    /\ lastNotif = 0
    /\ lastChange = None
    /\ board \in BOOLEAN
    /\ lastBackup \in StartupBackupTimes(board)
    /\ dbFile \in BOOLEAN
    /\ cache = EmptyDict
    /\ now = 0
    /\ last = [op |-> "init", key |-> "k1", ret |-> None, raised |-> FALSE,
               at |-> 0, pre |-> EmptyDict]
    /\ lastSet = [k \in Keys |-> NoSet(FALSE)]

BackupNext ==
    \/ MarkDataChange
    \/ ShouldBackupNowCall
    \/ \E force \in BOOLEAN, upload_ok \in BOOLEAN : BackupCall(force, upload_ok)
    \/ \E upload_ok \in BOOLEAN : WriteHandlerTail(upload_ok)
    \/ \E download \in Downloads, copy \in Copies : RestoreCall(download, copy)
    \/ \E meta_ok \in BOOLEAN : GetBackupInfoCall(meta_ok)
    \/ GetStatusCall
    \/ \E t \in ClockPoints : BackupTick(t)

SpecBackup == BackupInit /\ [][BackupNext]_vars

\* the timer thread and shutdown() beside the handlers, which call
\* mark_data_change and backup_database
LifecycleNext ==
    \/ MarkDataChange
    \/ \E force \in BOOLEAN, upload_ok \in BOOLEAN : BackupCall(force, upload_ok)
    \/ \E upload_ok \in BOOLEAN : ShutdownCall(upload_ok)
    \/ ShutdownJoin
    \/ TimerWake
    \/ \E upload_ok \in BOOLEAN : TimerBackup(upload_ok)
    \/ \E t \in ClockPoints : BackupTick(t)

SpecLifecycle == BackupInit /\ [][LifecycleNext]_vars

\* the instants the clock visits where only the order of the steps matters:
\* the start, and one backup interval later
IntervalEnds == {0, BackupIntervalHours * SecondsPerHour}

LifecycleFairNext ==
    \/ MarkDataChange
    \/ \E force \in BOOLEAN, upload_ok \in BOOLEAN : BackupCall(force, upload_ok)
    \/ \E upload_ok \in BOOLEAN : ShutdownCall(upload_ok)
    \/ ShutdownJoin
    \/ TimerWake
    \/ \E upload_ok \in BOOLEAN : TimerBackup(upload_ok)
    \/ \E t \in IntervalEnds : BackupTick(t)

\* the timer thread is scheduled again and again and its upload ends; the
\* join of shutdown() ends
SpecLifecycleFair ==
    /\ BackupInit
    /\ [][LifecycleFairNext]_vars
    /\ WF_vars(TimerWake)
    /\ WF_vars(\E upload_ok \in BOOLEAN : TimerBackup(upload_ok))
    /\ WF_vars(ShutdownJoin)

----------------------------------------------------------------------------
(* The startup half of lifespan                                             *)

\* boot when lifespan begins
Booting == [pc |-> "start", found |-> FALSE, restore |-> "none",
            init |-> FALSE, backup |-> FALSE]

\* lifespan: if not DATABASE_PATH.exists()
RestoreAlways(file_exists) == TRUE
RestoreNeeded(file_exists) == ~file_exists

\* lifespan: the restore step.  An exception of restore_database would leave
\* the try block for "App will continue without database initialization"
StartRestore(download, copy) ==
    LET r == RestoreDatabase(board, dbFile, dbData, download, copy)
        called == RestoreNeeded(dbFile)
    IN /\ boot.pc = "start"
       /\ (called /\ r.downloaded) \/ (download = "ok" /\ copy = "ok")
       /\ download = "ok" \/ copy = "ok"
       /\ dbFile' = IF called THEN r.exists ELSE dbFile
       /\ dbData' = IF called THEN r.data ELSE dbData
       /\ boot' = [boot EXCEPT
                     !.pc = IF called /\ r.raised THEN "serving" ELSE "init",
                     !.found = dbFile,
                     !.restore = IF ~called THEN "skipped"
                                 ELSE IF r.ret THEN "ok" ELSE "failed"]
       /\ UNCHANGED <<lastChange, lastBackup, board, now>>
       /\ UNCHANGED <<wsVars, bkLast, stopReq, timerPc, shut, readVars, queueVars, uploadVars>>
       /\ UNCHANGED <<cache, last, lastSet, threadVars, storeVars, handlerVars, notifierVars>>

\* lifespan: init_db().  sqlite3.connect creates the file when it is absent
\* and the SQL files run on the file that is there; an exception leaves the
\* try block
StartInitDb(init_ok) ==
    /\ boot.pc = "init"
    /\ dbFile' = IF init_ok THEN TRUE ELSE dbFile
    /\ dbData' = IF init_ok /\ ~dbFile THEN "fresh" ELSE dbData
    /\ boot' = [boot EXCEPT !.pc = IF init_ok THEN "info" ELSE "serving",
                            !.init = TRUE]
    /\ UNCHANGED <<lastChange, lastBackup, board, now>>
    /\ UNCHANGED <<wsVars, bkLast, stopReq, timerPc, shut, readVars, queueVars, uploadVars>>
    /\ UNCHANGED <<cache, last, lastSet, threadVars, storeVars, handlerVars, notifierVars>>

\* lifespan: backup_info = db_manager.get_backup_info(), and last_backup_time
\* set from its metadata when that holds a backup_time
StartBackupInfo(meta_ok, has_time) ==
    LET r == GetBackupInfo(board, meta_ok) IN
    /\ boot.pc = "info"
    /\ meta_ok \/ r.queried
    /\ has_time => r.ret
    /\ lastBackup' = IF r.ret /\ has_time THEN Some(0) ELSE lastBackup
    /\ boot' = [boot EXCEPT !.pc = "backup"]
    /\ UNCHANGED <<lastChange, board, dbFile, now>>
    /\ UNCHANGED <<wsVars, bkLast, lifeVars, readVars, queueVars, uploadVars>>
    /\ UNCHANGED <<cache, last, lastSet, threadVars, storeVars, handlerVars, notifierVars>>

\* lifespan: the initial backup, forced, when the file is absent or empty;
\* empty: the file init_db created has size 0
StartInitialBackup(empty, upload_ok) ==
    LET called == IF dbFile THEN empty ELSE TRUE
        r == BackupDatabase(TRUE, lastChange, lastBackup, board, dbFile, now, upload_ok)
    IN /\ boot.pc = "backup"
       /\ empty => dbData = "fresh"
       /\ upload_ok \/ (called /\ r.uploaded)
       /\ lastBackup' = IF called THEN r.backup ELSE lastBackup
       /\ boot' = [boot EXCEPT !.pc = "serving", !.backup = called]
       /\ UNCHANGED <<lastChange, board, dbFile, now>>
       /\ UNCHANGED <<wsVars, bkLast, lifeVars, readVars, queueVars, uploadVars>>
       /\ UNCHANGED <<cache, last, lastSet, threadVars, storeVars, handlerVars, notifierVars>>

\* PersistentSQLiteDB.__init__ and the module state when lifespan begins
StartupInit ==
    /\ ThreadsIdle
    /\ Untouched
    /\ boot = Booting
    /\ items = {}
    /\ dbVer = 0
    /\ rpc = [r \in 1..NumHandlers |-> "idle"]
    /\ req = [r \in 1..NumHandlers |-> NoReq]
    /\ rlog = [r \in 1..NumHandlers |-> <<>>]
    /\ loop = 0
    /\ conns = {}
    /\ lastNotif = 0
    /\ lastChange = None
    /\ board \in BOOLEAN
    /\ lastBackup = None
    /\ dbFile \in BOOLEAN
    /\ cache = EmptyDict
    /\ now = 0
    /\ last = [op |-> "init", key |-> "k1", ret |-> None, raised |-> FALSE,
               at |-> 0, pre |-> EmptyDict]
    /\ lastSet = [k \in Keys |-> NoSet(FALSE)]

StartupNext ==
    \/ \E download \in Downloads, copy \in Copies : StartRestore(download, copy)
    \/ \E init_ok \in BOOLEAN : StartInitDb(init_ok)
    \/ \E meta_ok, has_time \in BOOLEAN : StartBackupInfo(meta_ok, has_time)
    \/ \E empty, upload_ok \in BOOLEAN : StartInitialBackup(empty, upload_ok)
    \/ \E t \in ClockPoints : BackupTick(t)

SpecStartup == StartupInit /\ [][StartupNext]_vars

----------------------------------------------------------------------------
(* backup_database run by two threads.  The handlers, the admin endpoints   *)
(* and lifespan are coroutines of the event loop and call it synchronously, *)
(* so the event-loop thread is inside at most one call; the backup_timer    *)
(* thread calls it from _check_and_backup_if_needed.  The class has no      *)
(* lock: the steps of the two threads interleave at every statement.        *)

\* what no step of a backup_database call changes
uploadFrame == <<board, dbFile, wsVars, bkLast, dbData, readVars, queueVars, boot,
                 cache, last, lastSet, threadVars, storeVars, handlerVars, notifierVars>>

\* backup_database(force) called now reaches board.pin_upload
ReachesUpload(force, change) ==
    BackupDatabase(force, change, lastBackup, board, dbFile, now, TRUE).uploaded

\* up[th] when th enters pin_upload: the file it reads holds every change
\* marked so far
Uploading(who, late) ==
    [pc |-> "uploading", snap |-> marks', who |-> who, late |-> late]

\* pin_upload returned or raised on thread th: a new remote version if it
\* returned, and then "self.last_backup_time = datetime.now()"
UploadEnds(th, upload_ok) ==
    /\ remoteSnap' = IF upload_ok THEN up[th].snap ELSE remoteSnap
    /\ lastBackup' = BackupDatabase(TRUE, lastChange, lastBackup, TRUE, TRUE, now, upload_ok).backup
    /\ up' = [up EXCEPT ![th] = [NoUpload EXCEPT !.late = up[th].late]]

\* the event-loop thread is free to run a handler
LoopFree == up["loop"].pc = "idle" /\ shut.pc = "running"

\* the end of a write handler on the event-loop thread: mark_data_change(),
\* then backup_database() up to pin_upload.  datetime.now() read after
\* last_backup_time was stamped is later than that stamp
WriteTailBegins ==
    LET change == MarkChange(lastChange, now) IN
    /\ LoopFree
    /\ marks < MaxWrites
    /\ lastBackup # None => now > lastBackup[1]
    /\ lastChange' = change
    /\ marks' = marks + 1
    /\ up' = IF ReachesUpload(HandlerForce, change)
             THEN [up EXCEPT !["loop"] = Uploading("write_handler", FALSE)]
             ELSE up
    /\ UNCHANGED <<lastBackup, remoteSnap, lifeVars, now, uploadFrame>>

\* POST /admin/backup on the event-loop thread: backup_database(force=True)
\* up to pin_upload
AdminBackupBegins ==
    /\ LoopFree
    /\ ReachesUpload(TRUE, lastChange)
    /\ marks' = marks
    /\ up' = [up EXCEPT !["loop"] = Uploading("admin", FALSE)]
    /\ UNCHANGED <<lastChange, lastBackup, remoteSnap, lifeVars, now, uploadFrame>>

\* shutdown() on the event-loop thread: the stop flag, the test for unsaved
\* changes, and backup_database(force=True) up to pin_upload
ShutdownBegins ==
    LET called == UnsavedChanges(lastChange, lastBackup) /\ ReachesUpload(TRUE, lastChange) IN
    /\ LoopFree
    /\ stopReq' = TRUE
    /\ marks' = marks
    /\ up' = IF called THEN [up EXCEPT !["loop"] = Uploading("shutdown", FALSE)] ELSE up
    /\ shut' = [shut EXCEPT !.pc = IF called THEN "backup" ELSE "joining",
                            !.called = called,
                            !.change = lastChange, !.backup = lastBackup]
    /\ UNCHANGED <<lastChange, lastBackup, remoteSnap, timerPc, dbData, now, uploadFrame>>

\* pin_upload ends on the event-loop thread
LoopUploadEnds(upload_ok) ==
    /\ up["loop"].pc = "uploading"
    /\ UploadEnds("loop", upload_ok)
    /\ shut' = IF up["loop"].who = "shutdown"
               THEN [shut EXCEPT !.pc = "joining", !.ret = upload_ok]
               ELSE shut
    /\ UNCHANGED <<lastChange, marks, stopReq, timerPc, dbData, now, uploadFrame>>

\* where backup_timer goes after a pass: "while not self._shutdown_requested"
AfterPass == IF TimerSeesStop(stopReq) THEN "exited" ELSE "sleeping"

\* backup_timer: time.sleep returns and "if self._shutdown_requested: break"
TimerWakes ==
    /\ timerPc = "sleeping"
    /\ timerPc' = IF TimerSeesStop(stopReq) THEN "exited" ELSE "check"
    /\ UNCHANGED <<lastChange, lastBackup, uploadVars, stopReq, shut, dbData, now, uploadFrame>>

\* _check_and_backup_if_needed: if self.should_backup_now()
TimerChecks ==
    /\ timerPc = "check"
    /\ timerPc' = IF ShouldBackupNow(lastChange, lastBackup, now) THEN "backup" ELSE AfterPass
    /\ up' = [up EXCEPT !["timer"].late = @ \/ stopReq]
    /\ UNCHANGED <<lastChange, lastBackup, marks, remoteSnap, stopReq, shut, dbData, now, uploadFrame>>

\* _check_and_backup_if_needed: self.backup_database() up to pin_upload
TimerUploadBegins ==
    /\ timerPc = "backup"
    /\ marks' = marks
    /\ IF ReachesUpload(TimerForce, lastChange)
       THEN /\ timerPc' = "uploading"
            /\ up' = [up EXCEPT !["timer"] = Uploading("timer", up["timer"].late \/ stopReq)]
       ELSE /\ timerPc' = AfterPass
            /\ up' = up
    /\ UNCHANGED <<lastChange, lastBackup, remoteSnap, stopReq, shut, dbData, now, uploadFrame>>

\* pin_upload ends on the backup_timer thread
TimerUploadEnds(upload_ok) ==
    /\ timerPc = "uploading"
    /\ UploadEnds("timer", upload_ok)
    /\ timerPc' = AfterPass
    /\ UNCHANGED <<lastChange, marks, stopReq, shut, dbData, now, uploadFrame>>

UploadsNext ==
    \/ WriteTailBegins
    \/ AdminBackupBegins
    \/ ShutdownBegins
    \/ \E upload_ok \in BOOLEAN : LoopUploadEnds(upload_ok)
    \/ ShutdownJoin
    \/ TimerWakes
    \/ TimerChecks
    \/ TimerUploadBegins
    \/ \E upload_ok \in BOOLEAN : TimerUploadEnds(upload_ok)
    \/ \E t \in ClockPoints : BackupTick(t)

SpecUploads == BackupInit /\ [][UploadsNext]_vars

\* C20: should_backup_now returns true exactly when the data-change time is
\* set and either no backup time is set or the backup interval has passed
\* since the backup and the data change is later than the backup; so it is
\* false with no data change marked, true right after mark_data_change when
\* no backup has occurred, and false right after a successful forced backup
C20_ShouldBackupNowPredicate ==
    bkLast.op = "should_backup_now" =>
        /\ bkLast.ret =
              (/\ bkLast.change # None
               /\ \/ bkLast.backup = None
                  \/ /\ bkLast.at - bkLast.backup[1] >= BackupIntervalHours * SecondsPerHour
                     /\ bkLast.change[1] > bkLast.backup[1])
        /\ bkLast.change = None => ~bkLast.ret
        /\ bkLast.prevOp = "mark_data_change" /\ bkLast.backup = None => bkLast.ret
        /\ bkLast.prevOp = "backup_database_forced" /\ bkLast.prevRet => ~bkLast.ret

\* should_backup_now has been called right after a successful forced backup
\* of a changed store, with the backup interval already over
C20_Witness ==
    /\ bkLast.op = "should_backup_now"
    /\ bkLast.prevOp = "backup_database_forced"
    /\ bkLast.prevRet
    /\ bkLast.change # None
    /\ bkLast.at - bkLast.backup[1] >= BackupIntervalHours * SecondsPerHour
    /\ ~bkLast.ret

BackupOps == {"backup_database", "backup_database_forced"}

\* the predicate of should_backup_now on the timestamps that the latest call
\* found
HeldBefore ==
    /\ bkLast.change # None
    /\ \/ bkLast.backup = None
       \/ /\ bkLast.at - bkLast.backup[1] >= BackupIntervalHours * SecondsPerHour
          /\ bkLast.change[1] > bkLast.backup[1]

\* C21: with no backup time set, the pins board connected, the database file
\* present and the upload succeeding, an unforced backup_database called
\* right after mark_data_change returns true and sets the backup time to the
\* time of the call; an unforced backup_database called right after a
\* successful one, with no data change between, returns false and uploads
\* nothing
C21_BackupAfterMarkThenNothingToDo ==
    bkLast.op = "backup_database" =>
        /\ (/\ bkLast.prevOp = "mark_data_change"
            /\ bkLast.backup = None
            /\ bkLast.board
            /\ bkLast.file
            /\ bkLast.remote # "fails")
           => /\ bkLast.ret
              /\ bkLast.remote = "ok"
              /\ lastBackup = Some(bkLast.at)
        /\ (bkLast.prevOp = "backup_database" /\ bkLast.prevRet)
           => /\ ~bkLast.ret
              /\ bkLast.remote = "none"
              /\ lastBackup = bkLast.backup

\* an unforced backup has been called at the instant of a successful
\* unforced backup of a changed store, and returned false
C21_Witness ==
    /\ bkLast.op = "backup_database"
    /\ bkLast.prevOp = "backup_database"
    /\ bkLast.prevRet
    /\ bkLast.change # None
    /\ bkLast.backup = Some(bkLast.at)
    /\ ~bkLast.ret

\* C22: backup_database raises nothing and returns true only when its upload
\* succeeded; it returns false without calling the pins board when it is
\* unforced and the predicate of should_backup_now is false, when the board
\* is missing and when the database file is missing, and it returns false
\* when the upload fails; when it returns false both timestamps are what
\* they were, and when it returns true the backup time is the time of the call
C22_BackupDatabaseOutcomes ==
    bkLast.op \in BackupOps =>
        /\ ~bkLast.raised
        /\ bkLast.ret => bkLast.remote = "ok" /\ lastBackup = Some(bkLast.at)
        /\ (bkLast.op = "backup_database" /\ ~HeldBefore)
           => ~bkLast.ret /\ bkLast.remote = "none"
        /\ ~bkLast.board => ~bkLast.ret /\ bkLast.remote = "none"
        /\ ~bkLast.file => ~bkLast.ret /\ bkLast.remote = "none"
        /\ bkLast.remote = "fails" => ~bkLast.ret
        /\ ~bkLast.ret => lastBackup = bkLast.backup
        /\ lastChange = bkLast.change

\* a backup of a changed store has failed in its upload, after an earlier
\* backup
C22_Witness ==
    /\ bkLast.op \in BackupOps
    /\ bkLast.remote = "fails"
    /\ bkLast.change # None
    /\ bkLast.backup # None
    /\ ~bkLast.ret

\* C23: when the pins board was not connected at construction, no call
\* connects it; every backup_database, forced or not, and every
\* restore_database returns false and get_backup_info returns None, none of
\* them calling the board; the backup time stays unset; mark_data_change
\* still records the time and should_backup_now still answers whether a data
\* change is marked
C23_DegradedIsAbsorbing ==
    /\ bkLast.op # "none" => board = bkLast.board
    /\ ~board =>
        /\ lastBackup = None
        /\ bkLast.op \in BackupOps \cup {"restore_database", "get_backup_info"}
           => ~bkLast.ret /\ bkLast.remote = "none"
        /\ bkLast.op = "mark_data_change" => lastChange = Some(bkLast.at)
        /\ bkLast.op = "should_backup_now" => bkLast.ret = (bkLast.change # None)

\* without a board, a forced backup of a changed store whose file exists has
\* returned false
C23_Witness ==
    /\ ~board
    /\ bkLast.op = "backup_database_forced"
    /\ bkLast.change # None
    /\ bkLast.file
    /\ ~bkLast.ret

\* C28: mark_data_change raises nothing, sets the data-change time to the
\* time of the call, which is not earlier than the time it replaces, and
\* changes neither the backup time, nor the board, nor the database file;
\* get_status, get_backup_info and should_backup_now change neither
\* timestamp nor the board
C28_MarkAndReadsFrame ==
    /\ bkLast.op = "mark_data_change" =>
        /\ ~bkLast.raised
        /\ lastChange = Some(bkLast.at)
        /\ bkLast.change # None => lastChange[1] >= bkLast.change[1]
        /\ lastBackup = bkLast.backup
        /\ board = bkLast.board
        /\ dbFile = bkLast.file
        /\ dbData = bkLast.data
    /\ bkLast.op \in {"get_status", "get_backup_info", "should_backup_now"} =>
        /\ lastChange = bkLast.change
        /\ lastBackup = bkLast.backup
        /\ board = bkLast.board

\* mark_data_change has replaced an earlier data-change time, a backup time
\* being set
C28_Witness ==
    /\ bkLast.op = "mark_data_change"
    /\ bkLast.change # None
    /\ bkLast.change # lastChange
    /\ bkLast.backup # None

\* C29: restore_database raises nothing; it returns false when the board is
\* missing, when pin_download returns no file or fails, and when the copy
\* fails; when pin_download returns no file or fails the local database file
\* is what it was; no call changes either timestamp
C29_RestoreFailuresAreFalse ==
    bkLast.op = "restore_database" =>
        /\ ~bkLast.raised
        /\ ~bkLast.board => ~bkLast.ret
        /\ bkLast.remote \in {"empty", "fails", "copy_fails", "copy_partial"}
           => ~bkLast.ret
        /\ bkLast.remote \in {"none", "empty", "fails"}
           => dbFile = bkLast.file /\ dbData = bkLast.data
        /\ lastChange = bkLast.change
        /\ lastBackup = bkLast.backup

\* restore_database has failed in its download with a local file present and
\* both timestamps set
C29_Witness ==
    /\ bkLast.op = "restore_database"
    /\ bkLast.remote = "fails"
    /\ bkLast.file
    /\ dbFile
    /\ bkLast.change # None
    /\ bkLast.backup # None
    /\ ~bkLast.ret

\* C24: shutdown sets the stop flag and calls backup_database(force=True)
\* exactly when the data-change time is set and the backup time is unset or
\* earlier than it; that call reaches the upload whatever the backup interval
\* says; and when it returned true and the data-change time is still the one
\* shutdown found, after shutdown returned the backup time is set and the
\* data-change time is not later than it
C24_ShutdownFinalBackup ==
    /\ shut.pc # "running" =>
        /\ stopReq
        /\ shut.called =
              (/\ shut.change # None
               /\ \/ shut.backup = None
                  \/ shut.change[1] > shut.backup[1])
        /\ ~shut.called => ~shut.ret
        /\ (shut.pc = "returned" /\ shut.ret /\ lastChange = shut.change)
           => lastBackup # None /\ lastChange[1] <= lastBackup[1]
    /\ bkLast.op = "shutdown" =>
        /\ (shut.called /\ bkLast.board /\ bkLast.file) => bkLast.remote # "none"
        /\ ~shut.called => bkLast.remote = "none" /\ lastBackup = bkLast.backup
        /\ bkLast.ret = shut.ret

\* shutdown has returned after a final backup that succeeded, an earlier
\* backup being older than the data change
C24_Witness ==
    /\ shut.pc = "returned"
    /\ shut.called
    /\ shut.ret
    /\ shut.backup # None
    /\ lastChange = shut.change

\* C25: once shutdown is called the stop flag is set; with the timer thread
\* scheduled fairly, a set stop flag leads to the thread having left its
\* loop, a sleeping thread that finds the flag set leaves the loop at that
\* wake, and a thread that left the loop stays out; the join of shutdown
\* always ends, whatever the timer thread does
C25_ShutdownTerminates ==
    /\ [](shut.pc # "running" => stopReq)
    /\ (stopReq ~> (timerPc = "exited"))
    /\ [][timerPc = "exited" => timerPc' = "exited"]_vars
    /\ [][(stopReq /\ timerPc = "sleeping" /\ timerPc' # "sleeping")
          => timerPc' = "exited"]_vars
    /\ ((shut.pc = "joining") ~> (shut.pc = "returned"))

\* shutdown has returned and the timer thread, which was inside a backup when
\* the stop flag was set, has left its loop
C25_Witness ==
    /\ shut.pc = "returned"
    /\ timerPc = "exited"
    /\ bkLast.op = "timer_backup"

\* C26: a wake of the timer thread that does not find the stop flag set
\* evaluates the predicate of should_backup_now, and when the predicate is
\* false the wake calls nothing remote and leaves both timestamps as they
\* were; the backup_database call of a wake uploads only if the predicate
\* holds when it is called, and never changes the data-change time
C26_TimerBackupIsUnforced ==
    /\ bkLast.op = "timer_wake" =>
        /\ bkLast.ret = HeldBefore
        /\ bkLast.remote = "none"
        /\ lastChange = bkLast.change
        /\ lastBackup = bkLast.backup
        /\ timerPc = "backup" => bkLast.ret
    /\ bkLast.op = "timer_backup" =>
        /\ bkLast.remote # "none" => HeldBefore
        /\ ~HeldBefore => lastBackup = bkLast.backup
        /\ ~bkLast.ret => lastBackup = bkLast.backup
        /\ lastChange = bkLast.change

\* the timer thread has uploaded a backup of a store changed since an earlier
\* backup
C26_Witness ==
    /\ bkLast.op = "timer_backup"
    /\ bkLast.remote = "ok"
    /\ bkLast.backup # None
    /\ ~stopReq

\* C27 as stated: no create, update or delete handler calls the pins board
\* on the request path
C27_NoRemoteCallOnRequestPath ==
    bkLast.op = "write_handler" => bkLast.remote = "none"

\* C27, amended: a create, update or delete handler uploads on the request
\* path exactly when, at its unforced backup_database call after
\* mark_data_change, the pins board is connected, the database file exists
\* and either no backup time is set or the backup interval has passed since
\* the last backup; otherwise the handler calls nothing remote, and it never
\* downloads
C27_RequestPathUploadsWhenDue ==
    bkLast.op = "write_handler" =>
        /\ (bkLast.remote # "none") =
              (/\ bkLast.board
               /\ bkLast.file
               /\ \/ bkLast.backup = None
                  \/ bkLast.at - bkLast.backup[1] >= BackupIntervalHours * SecondsPerHour)
        /\ bkLast.remote \in {"none", "ok", "fails"}
        /\ bkLast.remote = "none" => lastBackup = bkLast.backup

\* a handler has uploaded on the request path, a backup interval after the
\* last backup
C27_Witness ==
    /\ bkLast.op = "write_handler"
    /\ bkLast.remote = "ok"
    /\ bkLast.backup # None
    /\ bkLast.ret

\* C30: a dashboard read that returns a page returns one rendered from a
\* store state not older than the latest write that had committed and
\* invalidated both dashboard keys when the read began, whether the page
\* comes from the cache, where a read that ran while a write handler was
\* suspended may have put it, or from the store
C30_ReadSeesCompletedWrites ==
    lastRead.ver # -1 => lastRead.ver >= lastRead.after

\* with one write returned and the handler of a later write suspended in its
\* broadcast, a read has returned the page of the later write, and the page
\* is in the cache
C30_Witness ==
    /\ doneVer >= 1
    /\ lastRead.after > doneVer
    /\ lastRead.ver = lastRead.after
    /\ \E r \in Handlers : rpc[r] = "send"
    /\ \E k \in DashboardKeys : k \in DOMAIN cache /\ cache[k].data = lastRead.ver

FailureStatus == {400, 404, 500}

\* the state that a write handler's side effects change
CoreState == <<cache, conns, lastNotif, lastChange, lastBackup>>

\* C34: a create, update or delete request whose query or check fails (404
\* for a row that does not exist, 400 for an update without fields, 500 for
\* a failed insert) makes none of the side-effect calls and commits nothing:
\* from its arrival to its return the cache, the active set, the rate-limit
\* timestamp, both backup timestamps and the store are what they were
C34_FailedWriteChangesNothing ==
    /\ [](\A r \in Handlers :
             (req[r].status \in FailureStatus /\ rpc[r] # "done")
             => rpc[r] = "failed" /\ rlog[r] = <<>> /\ req[r].commitVer = 0)
    /\ [][\A r \in Handlers :
             (rpc[r] \in {"idle", "failed"} /\ rpc'[r] \in {"idle", "failed"}
              /\ rpc'[r] # rpc[r])
             => /\ rpc[r] = "idle" => req'[r].status \in FailureStatus
                /\ UNCHANGED <<CoreState, items, dbVer>>]_vars

\* an update without fields has been refused with 400 while the cache holds
\* a dashboard page, a data change is marked and a session is connected
C34_Witness ==
    \E r \in Handlers :
        /\ rpc[r] = "failed"
        /\ req[r].kind = "update"
        /\ req[r].status = 400
        /\ cache # EmptyDict
        /\ lastChange # None
        /\ conns # {}

\* C35: a dashboard read that finds its key cached returns the cached page
\* and leaves the cache alone; one that does not find it and renders the
\* page from the store returns that page and caches it to expire
\* DashboardTTL seconds later; one whose rendering fails returns the error
\* page and caches nothing; so every cached page was rendered from a store
\* state
C35_DashboardReadPath ==
    /\ [](\A k \in DOMAIN cache : cache[k].data \in 0..dbVer)
    /\ [][(rpc' = rpc /\ req' = req /\ now' = now /\ conns' = conns
           /\ (cache' # cache \/ lastRead' # lastRead))
          => \E k \in DashboardKeys :
                /\ \A j \in DashboardKeys \ {k} :
                      /\ (j \in DOMAIN cache') = (j \in DOMAIN cache)
                      /\ j \in DOMAIN cache => cache'[j] = cache[j]
                /\ \/ /\ k \in Cached
                      /\ cache' = cache
                      /\ lastRead'.ver = cache[k].data
                   \/ /\ k \notin Cached
                      /\ lastRead'.ver = dbVer
                      /\ k \in DOMAIN cache'
                      /\ cache'[k].data = dbVer
                      /\ cache'[k].expires_at = now + DashboardTTL
                   \/ /\ k \notin Cached
                      /\ lastRead'.ver = -1
                      /\ k \notin DOMAIN cache']_vars

\* a read has returned an error page while the other dashboard key is cached
\* and after a write
C35_Witness ==
    /\ lastRead.ver = -1
    /\ dbVer >= 1
    /\ Cached # {}
    /\ Cached # DashboardKeys

\* C37: a handle is in the active set only when its accept has succeeded: a
\* handle whose accept is still to come or has failed is not in the active
\* set, has been sent nothing, and no broadcast, whether called before or
\* while that accept was pending, attempted a send to it
C37_ActiveOnlyAfterAccept ==
    \A w \in WebSockets :
        /\ w \in conns => sess[w] = "open"
        /\ sess[w] \in {"new", "refused"} =>
              /\ w \notin conns
              /\ inbox[w] = <<>>
              /\ \A k \in Msgs : w \notin Range(nlog[k].attempted)
                                 /\ w \notin nlog[k].active

\* the accept of a handle failed while a broadcast was between two sends, and
\* that broadcast went on to send to another session
C37_Witness ==
    \E w \in WebSockets, k \in Msgs :
        /\ sess[w] = "refused"
        /\ lastOp.op = "connect" /\ lastOp.ws = w /\ lastOp.raised
        /\ ~nlog[k].done
        /\ nlog[k].ok # {}

\* C36: the step that ends a broadcast which executed sends leaves the active
\* set equal to the active set of that moment, with every connect and
\* disconnect made during the broadcast in it, minus exactly the sessions
\* whose send failed in this broadcast
C36_SweepEndRemovesExactlyFailed ==
    [][\A b \in Broadcasters :
          (bpc[b] = "sending" /\ bpc'[b] = "idle" /\ ~nlog'[bcall[b].msg].raised) =>
              /\ conns' = conns \ nlog[bcall[b].msg].failed
              /\ nlog'[bcall[b].msg].failed = nlog[bcall[b].msg].failed
              /\ \A w \in conns \ nlog[bcall[b].msg].active : w \in conns'
              /\ \A w \in nlog[bcall[b].msg].ok \ conns : w \notin conns']_vars

\* a broadcast has just ended and removed a failed session, while a session
\* that connected during it is active
C36_Witness ==
    \E k \in Msgs :
        /\ nlog[k].done
        /\ lastOp.op = "sweep_end"
        /\ nlog[k].endSeq = Len(nlog)
        /\ nlog[k].removed # {}
        /\ conns \ nlog[k].active # {}

\* the notifications queued so far that the task has not handed on yet: those
\* of its current pass, then those still in the queue
Waiting == task.batch \o queue

C38_StartupKeepsLocalSnapshot ==
    /\ boot.restore \in {"ok", "failed"} => ~boot.found
    /\ (boot.pc # "start" /\ boot.found) => (dbFile /\ dbData = "local")
    /\ (boot.pc \in {"info", "backup", "serving"} /\ boot.restore \in {"skipped", "failed"})
           => boot.init

\* startup is over: the file was absent, the restore was attempted and
\* failed, and init_db created a fresh database
C38_Witness ==
    /\ boot.pc = "serving"
    /\ ~boot.found
    /\ boot.restore = "failed"
    /\ boot.init
    /\ dbData = "fresh"

\* C31: whenever the data-change time is set and not later than the backup
\* time, the newest remote version was taken after every mark_data_change
\* made so far
C31_NoChangeLostByDirtyTracking ==
    (lastChange # None /\ lastBackup # None /\ lastChange[1] <= lastBackup[1])
        => remoteSnap = marks

\* C32: the backup_timer thread begins no backup check and no upload once
\* the stop flag is set, and its upload never overlaps the final backup of
\* shutdown
C32_NoTimerBackupAfterStop ==
    /\ ~up["timer"].late
    /\ ~(/\ up["timer"].pc = "uploading"
         /\ up["loop"].pc = "uploading"
         /\ up["loop"].who = "shutdown")

\* C33: at most one thread is inside pin_upload at any time
C33_OneUploadAtATime ==
    Cardinality({th \in UploadThreads : up[th].pc = "uploading"}) <= 1

====
